---- MODULE Spec2Model ----
(***************************************************************************)
(* A model of the gtree crate: Tree<T> (src/src/tree.rs), a tree of        *)
(* heap-allocated nodes linked by raw pointers, with a movable 'current'   *)
(* position, and the lazy iterator driven by a Cursor (src/src/cursor.rs). *)
(*                                                                         *)
(* The heap is an array of node cells.  A cell is "unalloc" until          *)
(* Box::new hands it out, "live" while the allocation exists, and          *)
(* "released" once Box::from_raw has dropped it; a released cell is never  *)
(* handed out again, so a stale pointer stays visible as such.  A pointer  *)
(* (Link<T>) is a cell number, 0 is None.  A fatal error (panic!) is an    *)
(* outcome of an operation: the step records ok = FALSE in 'last' and      *)
(* keeps whatever the code had already written before it panicked.         *)
(*                                                                         *)
(* T is a type parameter: no operation of Tree compares or edits an        *)
(* element it stores.  The callers modelled here store a different         *)
(* element in every node they construct (the ordinal of the allocation:    *)
(* 0, 1, 2, ..., as the repository's tests do), so that a sequence of      *)
(* elements identifies the sequence of nodes it was read from.             *)
(***************************************************************************)
EXTENDS Integers, Sequences, FiniteSets, TLC

\* Number of node allocations a run may perform in total.
MaxNodes == 3

Nodes == 1..MaxNodes
\* The program's Tree variables.
TreeIds == {"a", "b"}
\* The program's variables that hold a cursor, an iterator or a reference to an
\* element ('views' of a tree).
ViewIds == {"v1", "v2", "v3"}

VARIABLES heap, trees, last, views
vars == <<heap, trees, last, views>>

----------------------------------------------------------------------------
\* Sequence helpers (Vec::insert, Vec::remove, with 0-based indices).

VecInsert(s, i, e) == SubSeq(s, 1, i) \o <<e>> \o SubSeq(s, i + 1, Len(s))
VecRemove(s, i) == SubSeq(s, 1, i) \o SubSeq(s, i + 2, Len(s))
Range(s) == {s[k] : k \in 1..Len(s)}

----------------------------------------------------------------------------
\* The heap.

BlankCell == [st |-> "unalloc", father |-> 0, childs |-> <<>>, elem |-> 0, rel |-> 0]
CanAlloc(h) == \E n \in DOMAIN h : h[n].st = "unalloc"
Fresh(h) == CHOOSE n \in DOMAIN h : h[n].st = "unalloc" /\ \A m \in 1..(n - 1) : h[m].st # "unalloc"
Allocated(h) == {n \in DOMAIN h : h[n].st # "unalloc"}
Live(h) == {n \in DOMAIN h : h[n].st = "live"}
\* The element the caller stores in the next node it constructs.
NextElem(h) == Cardinality(Allocated(h))

\* Box::into_raw(Box::new(Node { elem, childs: Vec::new(), father }))
BoxNew(h, x, f) ==
  [h EXCEPT ![Fresh(h)] = [st |-> "live", father |-> f, childs |-> <<>>, elem |-> x, rel |-> 0]]

\* drop(Box::from_raw(n)): the cell is released; 'rel' counts the releases.
BoxFree(h, n) ==
  [h EXCEPT ![n] = [st |-> "released", father |-> 0, childs |-> <<>>, elem |-> 0, rel |-> @.rel + 1]]

\* Node ids reachable from n by child links, n included (pre-order, as _iter_rec).
RECURSIVE IterRec(_, _)
RECURSIVE IterKids(_, _, _)
IterKids(h, kids, k) ==
  IF k > Len(kids) THEN <<>> ELSE IterRec(h, kids[k]) \o IterKids(h, kids, k + 1)
IterRec(h, n) == <<n>> \o IterKids(h, h[n].childs, 1)

ElemsOf(h, s) == [k \in 1..Len(s) |-> h[s[k]].elem]
Reach(h, n) == IF n = 0 THEN {} ELSE Range(IterRec(h, n))

----------------------------------------------------------------------------
\* Tree values.

NoTree == [st |-> "none", root |-> 0, current |-> 0]
MkTree(r, c) == [st |-> "live", root |-> r, current |-> c]
IsEmpty(tr) == tr.root = 0
ChildsLen(h, tr) == Len(h[tr.current].childs)

\* The variable a newly made Tree value is bound to: the first unused one.
HasFreeVar(trs) == \E t \in TreeIds : trs[t].st = "none"
FreeVar(trs) == IF trs["a"].st = "none" THEN "a" ELSE "b"

\* 'last' describes the step just taken: the operation, the tree it was called
\* on (t), the other tree involved (u), its index argument (i), the element it
\* stored (x), whether it returned (ok) or panicked, the sequence it returned
\* (out), a position it started from (from), the fields of the Tree value it
\* consumed (donor), and, for a split and for a join that puts back what a split
\* just returned, the heap and the tree as they were before the split (pre);
\* a navigate_to that fails right after a split carries pre too.  msg holds the
\* numbers that the message of a panic reports, v the view variable that an
\* operation on a cursor, an iterator or a reference was called on or stored
\* its result in, res the view variable that a step bound a new view to.
\* Indices a caller passes to an operation on tree value tr: every index of a
\* child of current, the child count itself, and one beyond it.
Idx(h, tr) == IF tr.st = "live" /\ tr.root # 0 THEN 0..(Len(h[tr.current].childs) + 1) ELSE 0..1

NoOp ==
  [op |-> "init", t |-> "-", u |-> "-", i |-> 0, x |-> 0, ok |-> TRUE,
   out |-> <<>>, from |-> 0, donor |-> [root |-> 0, current |-> 0],
   pre |-> [h |-> <<>>, tr |-> NoTree], msg |-> <<>>, v |-> "-", res |-> "-"]
Did(name, t) == [NoOp EXCEPT !.op = name, !.t = t]
Panicked(name, t) == [NoOp EXCEPT !.op = name, !.t = t, !.ok = FALSE]

\* A view variable that holds nothing, and the program state without views.
\* A view has a type (kind), the tree it looks into, the node it stands on or
\* refers to (cur), the loan that keeps it alive (src, mode), whether it gives
\* mutable access to elements (mut), the method that returned it (by) and the
\* cursor it was obtained from (of).  An iterator also has the node it was made
\* on (start) and the nodes whose elements it has yielded so far (seen); a
\* ChildIterator has its fields i and len, a lazy iterator its idx_list (idx),
\* cur being the position of its cursor.
NoView ==
  [st |-> "none", kind |-> "-", tree |-> "-", cur |-> 0, src |-> "-", mode |-> "-",
   mut |-> FALSE, by |-> "-", of |-> "-", start |-> 0, seen |-> <<>>, i |-> 0,
   len |-> 0, idx |-> <<>>]
NoViews == [v \in ViewIds |-> NoView]

Init ==
  /\ heap = [n \in Nodes |-> BlankCell]
  /\ trees = [t \in TreeIds |-> NoTree]
  /\ last = NoOp
  /\ views = NoViews

\* Tree::from_element
FromElement(t) ==
  /\ HasFreeVar(trees)
  /\ t = FreeVar(trees)
  /\ CanAlloc(heap)
  /\ heap' = BoxNew(heap, NextElem(heap), 0)
  /\ trees' = [trees EXCEPT ![t] = MkTree(Fresh(heap), Fresh(heap))]
  /\ last' = [Did("from_element", t) EXCEPT !.x = NextElem(heap)]

\* Tree::default
Default(t) ==
  /\ HasFreeVar(trees)
  /\ t = FreeVar(trees)
  /\ trees' = [trees EXCEPT ![t] = MkTree(0, 0)]
  /\ last' = Did("default", t)
  /\ UNCHANGED heap

\* A push that puts the new node in front of its siblings.
PushNode_Front(h, cur, x) ==
  [BoxNew(h, x, cur) EXCEPT ![cur].childs = <<Fresh(h)>> \o @]

\* The allocation push makes: a childless node whose father is 'cur', appended
\* to cur's child list.
PushNode(h, cur, x) ==
  [BoxNew(h, x, cur) EXCEPT ![cur].childs = Append(@, Fresh(h))]

\* Tree::push
Push(t) ==
  /\ trees[t].st = "live"
  /\ IF IsEmpty(trees[t])
     THEN /\ last' = Panicked("push", t)
          /\ UNCHANGED <<heap, trees>>
     ELSE /\ CanAlloc(heap)
          /\ heap' = PushNode(heap, trees[t].current, NextElem(heap))
          /\ last' = [Did("push", t) EXCEPT !.x = NextElem(heap)]
          /\ UNCHANGED trees

\* An insert that overwrites the entry at index instead of shifting it.
InsertChild_Replace(childs, index, node) ==
  IF index < Len(childs) THEN [childs EXCEPT ![index + 1] = node] ELSE Append(childs, node)

\* An insert that ignores its index and appends.
InsertChild_Append(childs, index, node) == Append(childs, node)

\* The child list after childs.insert(index, node).
InsertChild(childs, index, node) == VecInsert(childs, index, node)

\* A bounds test that also rejects the index equal to the length.
VecInsertPanics_AtLen(childs, index) == index >= Len(childs)

\* The bounds test of Vec::insert: it panics when index > len.
VecInsertPanics(childs, index) == index > Len(childs)

\* Tree::insert.  The node is allocated while the arguments of Vec::insert are
\* evaluated; Vec::insert then panics when index > len.
Insert(t, i) ==
  /\ trees[t].st = "live"
  /\ IF IsEmpty(trees[t])
     THEN /\ last' = [Panicked("insert", t) EXCEPT !.i = i]
          /\ UNCHANGED <<heap, trees>>
     ELSE /\ CanAlloc(heap)
          /\ IF VecInsertPanics(heap[trees[t].current].childs, i)
             THEN /\ heap' = BoxNew(heap, NextElem(heap), trees[t].current)
                  /\ last' = [Panicked("insert", t) EXCEPT !.i = i, !.x = NextElem(heap)]
             ELSE /\ heap' = [BoxNew(heap, NextElem(heap), trees[t].current) EXCEPT
                                ![trees[t].current].childs = InsertChild(@, i, Fresh(heap))]
                  /\ last' = [Did("insert", t) EXCEPT !.i = i, !.x = NextElem(heap)]
          /\ UNCHANGED trees

\* The position navigate_to(index) moves to.
NavTarget(h, cur, index) == h[cur].childs[index + 1]

\* A report that gives the child count only.
OutOfRangeMsg_CountOnly(index, len) == <<len>>

\* A report that gives the index only.
OutOfRangeMsg_IndexOnly(index, len) == <<index>>

\* The numbers in the message of an index-out-of-range panic: the index asked
\* for and the number of children current has.
OutOfRangeMsg(index, len) == <<index, len>>

\* Tree::navigate_to
NavigateTo(t, i) ==
  /\ trees[t].st = "live"
  /\ IF IsEmpty(trees[t])
     THEN /\ last' = [Panicked("navigate_to", t) EXCEPT !.i = i]
          /\ UNCHANGED trees
     ELSE IF i >= ChildsLen(heap, trees[t])
     THEN /\ last' = [Panicked("navigate_to", t) EXCEPT
                        !.i = i, !.msg = OutOfRangeMsg(i, ChildsLen(heap, trees[t])),
                        !.pre = IF last.op = "split" /\ last.ok /\ last.t = t
                                THEN last.pre ELSE NoOp.pre]
          /\ UNCHANGED trees
     ELSE /\ trees' = [trees EXCEPT ![t].current = NavTarget(heap, @, i)]
          /\ last' = [Did("navigate_to", t) EXCEPT !.i = i, !.from = trees[t].current]
  /\ UNCHANGED heap

\* An ascend that jumps to the root instead of the father.
AscendTarget_Root(h, tr) == tr.root

\* The position ascend moves to.
AscendTarget(h, tr) == h[tr.current].father

\* Tree::ascend.  last.from carries the position held before a navigate_to that
\* this ascend directly follows on the same tree (0 otherwise).
Ascend(t) ==
  /\ trees[t].st = "live"
  /\ IF IsEmpty(trees[t]) \/ heap[trees[t].current].father = 0
     THEN /\ last' = Panicked("ascend", t)
          /\ UNCHANGED trees
     ELSE /\ trees' = [trees EXCEPT ![t].current = AscendTarget(heap, trees[t])]
          /\ last' = [Did("ascend", t) EXCEPT
                        !.from = IF last.op = "navigate_to" /\ last.ok /\ last.t = t
                                 THEN last.from ELSE 0]
  /\ UNCHANGED heap

\* A has_father that answers false everywhere.
HasFather_Never(h, tr) == FALSE

\* Tree::has_father
HasFather(h, tr) == IF IsEmpty(tr) THEN FALSE ELSE h[tr.current].father # 0

\* A go_to_root that stays where it is.
GoToRootTarget_Stay(tr) == tr.current

\* The position go_to_root moves to: self.current = self.root.
GoToRootTarget(tr) == tr.root

\* Tree::go_to_root
GoToRoot(t) ==
  /\ trees[t].st = "live"
  /\ IF IsEmpty(trees[t])
     THEN /\ last' = Panicked("go_to_root", t)
          /\ UNCHANGED trees
     ELSE /\ trees' = [trees EXCEPT ![t].current = GoToRootTarget(trees[t])]
          /\ last' = Did("go_to_root", t)
  /\ UNCHANGED heap

\* A split that clears the father link and leaves the child in cur's child list.
SplitNode_KeepChild(h, cur, index) ==
  LET c == h[cur].childs[index + 1]
  IN  [h |-> [h EXCEPT ![c].father = 0], node |-> c]

\* The body of Tree::split once the index is known to be in range: the child is
\* removed from cur's child list and its father link cleared.
SplitNode(h, cur, index) ==
  LET c == h[cur].childs[index + 1]
  IN  [h |-> [h EXCEPT ![cur].childs = VecRemove(@, index), ![c].father = 0],
       node |-> c]

\* Tree::split; the returned tree is bound to the variable u.
Split(t, i, u) ==
  /\ trees[t].st = "live"
  /\ HasFreeVar(trees)
  /\ u = FreeVar(trees)
  /\ IF IsEmpty(trees[t]) \/ i >= ChildsLen(heap, trees[t])
     THEN /\ last' = [Panicked("split", t) EXCEPT !.i = i, !.u = u,
                        !.msg = IF IsEmpty(trees[t]) THEN <<>>
                                ELSE OutOfRangeMsg(i, ChildsLen(heap, trees[t]))]
          /\ UNCHANGED <<heap, trees>>
     ELSE LET s == SplitNode(heap, trees[t].current, i)
          IN  /\ heap' = s.h
              /\ trees' = [trees EXCEPT ![u] = MkTree(s.node, s.node)]
              /\ last' = [Did("split", t) EXCEPT !.i = i, !.u = u,
                            !.pre = [h |-> heap, tr |-> trees[t]]]

\* A drop that frees the root's box and none of its descendants.
DropTree_RootOnly(h, r) == BoxFree(h, r)

\* Drop for Tree: from the root, split(0) once per child, each returned tree
\* being dropped at once, then the root's box is freed.
RECURSIVE DropTree(_, _)
RECURSIVE DropLoop(_, _, _)
DropLoop(h, r, k) ==
  IF k = 0 THEN h
  ELSE LET s == SplitNode(h, r, 0)
       IN  DropLoop(DropTree(s.h, s.node), r, k - 1)
DropTree(h, r) == BoxFree(DropLoop(h, r, Len(h[r].childs)), r)

\* The heap after a Tree value goes out of scope.
DropValue(h, tr) == IF tr.root # 0 THEN DropTree(h, tr.root) ELSE h

\* std::mem::drop(tree), or the end of the tree's scope.
Drop(t) ==
  /\ trees[t].st = "live"
  /\ heap' = DropValue(heap, trees[t])
  /\ trees' = [trees EXCEPT ![t] = NoTree]
  /\ last' = [Did("drop", t) EXCEPT
                !.donor = [root |-> trees[t].root, current |-> trees[t].current]]

\* The donor's fields when join is done with it: only root is cleared.
DonorAfterJoin(tr) == [root |-> 0, current |-> tr.current]

\* A join that leaves other's root without a father.
JoinFather_Skip(h, cur, oroot) == h

\* (*other_root).father = self.current
JoinFather(h, cur, oroot) == [h EXCEPT ![oroot].father = cur]

\* Tree::join(other, index): other (the variable u) is moved into the call and
\* dropped when the call ends, also when it ends in a panic.
Join(t, u, i) ==
  /\ trees[t].st = "live"
  /\ trees[u].st = "live"
  /\ u # t
  /\ trees' = [trees EXCEPT ![u] = NoTree]
  /\ IF IsEmpty(trees[t]) \/ IsEmpty(trees[u])
     THEN /\ heap' = DropValue(heap, trees[u])
          /\ last' = [Panicked("join", t) EXCEPT !.i = i, !.u = u,
                        !.donor = [root |-> trees[u].root, current |-> trees[u].current]]
     ELSE LET oroot == trees[u].root
              h1 == JoinFather(heap, trees[t].current, oroot)
          IN  IF i > ChildsLen(heap, trees[t])
              THEN /\ heap' = h1
                   /\ last' = [Panicked("join", t) EXCEPT !.i = i, !.u = u,
                                 !.from = oroot, !.donor = DonorAfterJoin(trees[u])]
              ELSE /\ heap' = [h1 EXCEPT ![trees[t].current].childs = InsertChild(@, i, oroot)]
                   /\ last' = [Did("join", t) EXCEPT !.i = i, !.u = u,
                                 !.from = oroot, !.donor = DonorAfterJoin(trees[u]),
                                 !.pre = IF last.op = "split" /\ last.ok /\ last.t = t
                                            /\ last.u = u /\ last.i = i
                                         THEN last.pre ELSE NoOp.pre]

\* _into_vec_rec: the node's box is taken back, its element pushed, its children
\* visited in order; the box is freed when the call returns.
RECURSIVE IntoVecRec(_, _)
RECURSIVE IntoVecKids(_, _, _)
IntoVecKids(h, kids, k) ==
  IF k > Len(kids) THEN [h |-> h, out |-> <<>>]
  ELSE LET a == IntoVecRec(h, kids[k])
           b == IntoVecKids(a.h, kids, k + 1)
       IN  [h |-> b.h, out |-> a.out \o b.out]
IntoVecRec(h, n) ==
  LET r == IntoVecKids(h, h[n].childs, 1)
  IN  [h |-> BoxFree(r.h, n), out |-> <<h[n].elem>> \o r.out]

\* A search that always answers with the first position.
FirstIndexOf_Zero(s, e) == 0

\* Index of the first entry of s equal to e (0-based), -1 when there is none.
FirstIndexOf(s, e) ==
  IF \E k \in 1..Len(s) : s[k] = e
  THEN (CHOOSE k \in 1..Len(s) : s[k] = e /\ \A j \in 1..(k - 1) : s[j] # e) - 1
  ELSE -1

\* An into_vec at the root that does not clean the tree's pointers.
IntoVecAtRoot_KeepPointers(h, tr) ==
  LET r == IntoVecRec(h, tr.root)
  IN  [h |-> r.h, tr |-> tr, out |-> r.out]

\* Tree::into_vec when current is the root.
IntoVecAtRoot(h, tr) ==
  LET r == IntoVecRec(h, tr.root)
  IN  [h |-> r.h, tr |-> MkTree(0, 0), out |-> r.out]

\* An into_vec below the root that leaves current on the node it destroys.
IntoVecBelowRoot_NoAscend(h, tr) ==
  LET old == tr.current
      up == h[old].father
      s == SplitNode(h, up, FirstIndexOf(h[up].childs, old))
      r == IntoVecRec(s.h, old)
  IN  [h |-> r.h, tr |-> tr, out |-> r.out]

\* Tree::into_vec when current has a father: ascend, find the old current among
\* the children, split it off, flatten it, and disarm the temporary tree.
IntoVecBelowRoot(h, tr) ==
  LET old == tr.current
      up == h[old].father
      idx == FirstIndexOf(h[up].childs, old)
  IN  IF idx < 0
      THEN [h |-> h, tr |-> [tr EXCEPT !.current = up], out |-> <<>>]
      ELSE LET s == SplitNode(h, up, idx)
               r == IntoVecRec(s.h, old)
           IN  [h |-> r.h, tr |-> [tr EXCEPT !.current = up], out |-> r.out]

\* Tree::into_vec
IntoVec(t) ==
  /\ trees[t].st = "live"
  /\ IF IsEmpty(trees[t])
     THEN /\ last' = Panicked("into_vec", t)
          /\ UNCHANGED <<heap, trees>>
     ELSE LET r == IF ~HasFather(heap, trees[t])
                   THEN IntoVecAtRoot(heap, trees[t])
                   ELSE IntoVecBelowRoot(heap, trees[t])
          IN  /\ heap' = r.h
              /\ trees' = [trees EXCEPT ![t] = r.tr]
              /\ last' = [Did("into_vec", t) EXCEPT !.out = r.out, !.from = trees[t].current]

\* A peek that does not look whether the tree is empty.
Peek_NoCheck(h, tr) == [ok |-> TRUE, val |-> 0]

\* Tree::peek: fatal on an empty tree, else the element of current.
Peek(h, tr) ==
  IF IsEmpty(tr) THEN [ok |-> FALSE, val |-> 0] ELSE [ok |-> TRUE, val |-> h[tr.current].elem]

\* An iter that always starts from the root.
IterOut_FromRoot(h, tr) == IF IsEmpty(tr) THEN <<>> ELSE ElemsOf(h, IterRec(h, tr.root))

\* Tree::iter, collected: the elements behind the references it yields.
IterOut(h, tr) == IF IsEmpty(tr) THEN <<>> ELSE ElemsOf(h, IterRec(h, tr.current))

Iter(t) ==
  /\ trees[t].st = "live"
  /\ last' = [Did("iter", t) EXCEPT !.out = IterOut(heap, trees[t])]
  /\ UNCHANGED <<heap, trees>>

----------------------------------------------------------------------------
\* The lazy iterator: a Cursor (its position, 'cur') and the list of child
\* indices, one per level.

Front(s) == SubSeq(s, 1, Len(s) - 1)
Back(s) == s[Len(s)]

\* A lazy iterator that starts with an index stack of two levels.
LazyStart_TwoLevels(n) == [cur |-> n, idx |-> <<0, 0>>]

\* Tree::lazyiter / Cursor::lazyiter
LazyStart(n) == [cur |-> n, idx |-> <<0>>]

\* LazyTreeIterator::next.  res is the node whose element is yielded, 0 for
\* None; panic is TRUE when Cursor::ascend panics under it.
RECURSIVE LazyNext(_, _)
LazyNext(h, it) ==
  IF it.idx = <<>> THEN [it |-> it, res |-> 0, panic |-> FALSE]
  ELSE IF Len(h[it.cur].childs) = 0
  THEN IF h[it.cur].father = 0
       THEN [it |-> it, res |-> 0, panic |-> TRUE]
       ELSE [it |-> [cur |-> h[it.cur].father, idx |-> Front(it.idx)],
             res |-> it.cur, panic |-> FALSE]
  ELSE IF Back(it.idx) < Len(h[it.cur].childs)
  THEN IF Back(it.idx) = 0
       THEN [it |-> [cur |-> NavTarget(h, it.cur, 0), idx |-> Front(it.idx) \o <<1, 0>>],
             res |-> it.cur, panic |-> FALSE]
       ELSE LazyNext(h, [cur |-> NavTarget(h, it.cur, Back(it.idx)),
                         idx |-> Front(it.idx) \o <<Back(it.idx) + 1, 0>>])
  ELSE LazyNext(h, [cur |-> IF h[it.cur].father # 0 THEN h[it.cur].father ELSE it.cur,
                    idx |-> Front(it.idx)])

\* Iterator::collect on a lazy iterator: next() until None, or until it panics.
RECURSIVE LazyCollect(_, _, _)
LazyCollect(h, it, acc) ==
  LET r == LazyNext(h, it)
  IN  IF r.panic THEN [ok |-> FALSE, out |-> acc]
      ELSE IF r.res = 0 THEN [ok |-> TRUE, out |-> acc]
      ELSE LazyCollect(h, r.it, Append(acc, h[r.res].elem))

\* tree.lazyiter().collect()
LazyIter(t) ==
  /\ trees[t].st = "live"
  /\ IF IsEmpty(trees[t])
     THEN last' = Panicked("lazyiter", t)
     ELSE LET r == LazyCollect(heap, LazyStart(trees[t].current), <<>>)
          IN  last' = [Did("lazyiter", t) EXCEPT !.ok = r.ok, !.out = r.out]
  /\ UNCHANGED <<heap, trees>>

----------------------------------------------------------------------------
\* Clone.

\* _clone_rec: src is the cursor on the source, dst the new tree's current,
\* target the source tree's current; res is the node of the new tree that was
\* current when the cursor stood on target (0 for None).
RECURSIVE CloneRec(_, _, _, _)
RECURSIVE CloneLoop(_, _, _, _, _, _, _)
CloneLoop(h, src, dst, target, res, i, n) ==
  IF i >= n THEN [h |-> h, res |-> res]
  ELSE LET h1 == PushNode(h, dst, h[NavTarget(h, src, i)].elem)
           nd == NavTarget(h1, dst, i)
           ns == NavTarget(h1, src, i)
           r == CloneRec(h1, ns, nd, target)
       IN  CloneLoop(r.h, r.h[ns].father, r.h[nd].father, target,
                     IF r.res # 0 THEN r.res ELSE res, i + 1, n)
CloneRec(h, src, dst, target) ==
  CloneLoop(h, src, dst, target, IF src = target THEN dst ELSE 0, 0, Len(h[src].childs))

\* A clone whose current is its root, whatever the source's current is.
CloneResult_AtRoot(nr, res) == MkTree(nr, nr)

\* The Tree value clone returns: new_tree with current set to what _clone_rec
\* returned.
CloneResult(nr, res) == MkTree(nr, res)

\* A clone that copies the two pointers and no node.
CloneTree_Shallow(h, tr) == [h |-> h, tr |-> tr]

\* The body of clone on a non-empty tree: from_element on a copy of the root's
\* element, then _clone_rec from the root.
CloneTree(h, tr) ==
  LET nr == Fresh(h)
      r == CloneRec(BoxNew(h, h[tr.root].elem, 0), tr.root, nr, tr.current)
  IN  [h |-> r.h, tr |-> CloneResult(nr, r.res)]

\* Clone for Tree; the clone is bound to the variable u.
Clone(t, u) ==
  /\ trees[t].st = "live"
  /\ HasFreeVar(trees)
  /\ u = FreeVar(trees)
  /\ IF IsEmpty(trees[t])
     THEN /\ last' = [Panicked("clone", t) EXCEPT !.u = u]
          /\ UNCHANGED <<heap, trees>>
     ELSE /\ Cardinality(DOMAIN heap \ Allocated(heap)) >= Len(IterRec(heap, trees[t].root))
          /\ LET r == CloneTree(heap, trees[t])
             IN  /\ heap' = r.h
                 /\ trees' = [trees EXCEPT ![u] = r.tr]
                 /\ last' = [Did("clone", t) EXCEPT !.u = u]

\* *tree.peek_mut() = v: the caller overwrites the element of current.  The
\* value written is one no node holds yet (the negative of the old one, less 1).
PeekMutWrite(t) ==
  /\ trees[t].st = "live"
  /\ IF IsEmpty(trees[t])
     THEN /\ last' = Panicked("peek_mut", t)
          /\ UNCHANGED heap
     ELSE /\ heap[trees[t].current].elem >= 0
          /\ heap' = [heap EXCEPT ![trees[t].current].elem = 0 - 1 - @]
          /\ last' = [Did("peek_mut", t) EXCEPT !.x = 0 - 1 - heap[trees[t].current].elem]
  /\ UNCHANGED trees

----------------------------------------------------------------------------
Next ==
  \/ \E t \in TreeIds : FromElement(t) /\ UNCHANGED views
  \/ \E t \in TreeIds : Default(t) /\ UNCHANGED views
  \/ \E t \in TreeIds : Push(t) /\ UNCHANGED views
  \/ \E t \in TreeIds : \E i \in Idx(heap, trees[t]) : Insert(t, i) /\ UNCHANGED views
  \/ \E t \in TreeIds : \E i \in Idx(heap, trees[t]) : NavigateTo(t, i) /\ UNCHANGED views
  \/ \E t \in TreeIds : Ascend(t) /\ UNCHANGED views
  \/ \E t \in TreeIds : GoToRoot(t) /\ UNCHANGED views
  \/ \E t \in TreeIds, u \in TreeIds : \E i \in Idx(heap, trees[t]) : Split(t, i, u) /\ UNCHANGED views
  \/ \E t \in TreeIds : Drop(t) /\ UNCHANGED views
  \/ \E t \in TreeIds, u \in TreeIds : \E i \in Idx(heap, trees[t]) : Join(t, u, i) /\ UNCHANGED views
  \/ \E t \in TreeIds : IntoVec(t) /\ UNCHANGED views
  \/ \E t \in TreeIds : Iter(t) /\ UNCHANGED views
  \/ \E t \in TreeIds : LazyIter(t) /\ UNCHANGED views
  \/ \E t \in TreeIds, u \in TreeIds : Clone(t, u) /\ UNCHANGED views

Spec == Init /\ [][Next]_vars

----------------------------------------------------------------------------
\* A program that builds one tree, clones it, and then works on the original
\* and on the clones: let mut a = Tree::from_element(0); then any sequence of
\* push, navigate_to, clone, *peek_mut() = v and drop.

\* Number of node allocations such a run may perform in total.
MaxCloneNodes == 6

CloneInit ==
  /\ heap = BoxNew([n \in 1..MaxCloneNodes |-> BlankCell], 0, 0)
  /\ trees = [[t \in TreeIds |-> NoTree] EXCEPT !["a"] = MkTree(1, 1)]
  /\ last = Did("from_element", "a")
  /\ views = NoViews

CloneNext ==
  \/ \E t \in TreeIds : Push(t) /\ UNCHANGED views
  \/ \E t \in TreeIds : \E i \in Idx(heap, trees[t]) : NavigateTo(t, i) /\ UNCHANGED views
  \/ \E t \in TreeIds, u \in TreeIds : Clone(t, u) /\ UNCHANGED views
  \/ \E t \in TreeIds : PeekMutWrite(t) /\ UNCHANGED views
  \/ \E t \in TreeIds : Drop(t) /\ UNCHANGED views

CloneSpec == CloneInit /\ [][CloneNext]_vars

----------------------------------------------------------------------------
\* Properties.

LiveTrees == {t \in TreeIds : trees[t].st = "live"}

\* C1: collecting lazyiter() on a non-empty tree never panics and yields the
\* same element sequence as iter() does for the subtree rooted at current,
\* a childless root included.
C1_LazyIterEqualsIter ==
  (last.op = "lazyiter" /\ ~IsEmpty(trees[last.t]))
    => (last.ok /\ last.out = IterOut(heap, trees[last.t]))

\* What holds of lazyiter(): it agrees with iter() wherever current has a child
\* or a father, and panics exactly on a childless root.
LazyIterOffChildlessRoot ==
  (last.op = "lazyiter" /\ ~IsEmpty(trees[last.t]))
    => LET c == trees[last.t].current
       IN  IF heap[c].childs = <<>> /\ heap[c].father = 0
           THEN ~last.ok
           ELSE last.ok /\ last.out = IterOut(heap, trees[last.t])

\* The owners of node n: the child-list entries and the root slots that hold it.
ChildOwners(n) ==
  {pk \in Live(heap) \X (1..MaxNodes) :
     pk[2] <= Len(heap[pk[1]].childs) /\ heap[pk[1]].childs[pk[2]] = n}
RootOwners(n) == {t \in LiveTrees : trees[t].root = n}
OwnerCount(n) == Cardinality(ChildOwners(n)) + Cardinality(RootOwners(n))

\* The nodes k child links below the nodes of S.
RECURSIVE Below(_, _)
Below(S, k) ==
  IF k = 0 THEN S ELSE Below(UNION {Range(heap[n].childs) : n \in S}, k - 1)
Acyclic == \A n \in Live(heap) : \A k \in 1..MaxNodes : n \notin Below({n}, k)

\* C2: every live node has exactly one owner (one entry of one child list, or
\* one tree's root slot), and the child links contain no cycle.
C2_ExactlyOneOwner ==
  /\ \A n \in Live(heap) : OwnerCount(n) = 1
  /\ Acyclic

\* What holds of ownership: no node ever has two owners, and no cycle exists.
AtMostOneOwner ==
  /\ \A n \in Live(heap) : OwnerCount(n) <= 1
  /\ Acyclic

\* C3: dropping a tree releases every node reachable from its root exactly
\* once, wherever current is, and touches no other node; dropping an empty tree
\* releases nothing.
C3_DropReleasesOnce ==
  [][last'.op = "drop" =>
       LET R == Reach(heap, trees[last'.t].root)
       IN  \A n \in Nodes :
             IF n \in R
             THEN heap[n].st = "live" /\ heap'[n].st = "released" /\ heap'[n].rel = 1
             ELSE heap'[n] = heap[n]]_vars

C3_Witness ==
  /\ last.op = "drop"
  /\ last.donor.root # 0
  /\ last.donor.current # last.donor.root
  /\ Cardinality({n \in Nodes : heap[n].st = "released"}) >= 3

\* The nodes some tree that is still in scope owns, directly or transitively.
Owned == UNION {Reach(heap, trees[t].root) : t \in LiveTrees}

\* Every pointer held by a tree or by a live node.
Pointers ==
  UNION {{trees[t].root, trees[t].current} : t \in LiveTrees}
  \cup UNION {Range(heap[n].childs) \cup {heap[n].father} : n \in Live(heap)}

\* C4: no leak, no double free, no dangling pointer: every node allocated and
\* not released is owned by the root of a tree still to be dropped, no node is
\* released twice, and no pointer of a tree or of a live node leads to a
\* released node.
C4_NoLeakNoDoubleFreeNoDangling ==
  /\ Live(heap) \subseteq Owned
  /\ \A n \in Nodes : heap[n].rel <= 1
  /\ \A n \in Pointers : n # 0 => heap[n].st = "live"

\* What holds of the heap: no node is released twice, and no tree's root or
\* current and no link of an owned node leads to a released node.
NoDoubleFreeNoDanglingInTrees ==
  /\ \A n \in Nodes : heap[n].rel <= 1
  /\ \A t \in LiveTrees : \A n \in {trees[t].root, trees[t].current} :
        n # 0 => heap[n].st = "live"
  /\ \A n \in Owned : \A m \in Range(heap[n].childs) \cup {heap[n].father} :
        m # 0 => heap[m].st = "live"

\* C5: for every Tree value, current is None exactly when root is None; this
\* covers the donor as join leaves it.
C5_CurrentNoneIffRootNone ==
  /\ \A t \in LiveTrees : (trees[t].root = 0) <=> (trees[t].current = 0)
  /\ last.op = "join" => ((last.donor.root = 0) <=> (last.donor.current = 0))

\* What holds of the trees in scope: their root and current are None together.
CurrentNoneIffRootNoneInScope ==
  \A t \in LiveTrees : (trees[t].root = 0) <=> (trees[t].current = 0)

\* C6: in every non-empty tree current is a live node reachable from root by
\* child links.
C6_CurrentReachable ==
  \A t \in LiveTrees :
    trees[t].root # 0 =>
      /\ trees[t].current # 0
      /\ heap[trees[t].current].st = "live"
      /\ trees[t].current \in Reach(heap, trees[t].root)

\* into_vec was called below the root: the node current stood on is released
\* and the tree is still non-empty.
C6_Witness ==
  /\ last.op = "into_vec"
  /\ last.ok
  /\ trees[last.t].root # 0
  /\ heap[last.from].st = "released"

\* C7: the father link of a node is None exactly when the node is the root of a
\* tree, and otherwise leads to the node whose child list holds it; every child
\* of a node has that node as its father.
C7_FatherLinks ==
  \A n \in Live(heap) :
    /\ (heap[n].father = 0) <=> (\E t \in LiveTrees : trees[t].root = n)
    /\ heap[n].father # 0 =>
         /\ heap[heap[n].father].st = "live"
         /\ n \in Range(heap[heap[n].father].childs)
    /\ \A c \in Range(heap[n].childs) : heap[c].father = n

\* What holds of father links: they are right on every node a tree owns.
FatherLinksOfOwned ==
  \A n \in Owned :
    /\ (heap[n].father = 0) <=> (\E t \in LiveTrees : trees[t].root = n)
    /\ heap[n].father # 0 => n \in Range(heap[heap[n].father].childs)
    /\ \A c \in Range(heap[n].childs) : heap[c].father = n

\* C8: navigate_to(i) with i < childs_len() followed by ascend() brings current
\* back to where it was, and neither call changes a node or another tree.
C8_NavigateThenAscend ==
  [][/\ last'.op \in {"navigate_to", "ascend"} =>
          /\ heap' = heap
          /\ \A u \in TreeIds \ {last'.t} : trees'[u] = trees[u]
          /\ trees'[last'.t].root = trees[last'.t].root
     /\ (last.op = "navigate_to" /\ last.ok /\ last'.op = "ascend" /\ last'.t = last.t) =>
          /\ last'.ok
          /\ trees'[last.t].current = last.from
     /\ (last'.op = "navigate_to" /\ ~IsEmpty(trees[last'.t])
           /\ last'.i < ChildsLen(heap, trees[last'.t])) => last'.ok]_vars

\* An ascend that directly follows a navigate_to on the same tree, from a node
\* that is itself below the root.
C8_Witness ==
  /\ last.op = "ascend"
  /\ last.ok
  /\ last.from # 0
  /\ last.from # trees[last.t].root

\* C9: push(x) on a non-empty tree appends one new childless node holding x as
\* the last child of current, fathered by current; the earlier children keep
\* their places, current does not move, nothing else changes, and
\* navigate_to(childs_len() - 1) then finds x.
C9_PushAppends ==
  [][(last'.op = "push" /\ ~IsEmpty(trees[last'.t])) =>
       LET c == trees[last'.t].current
           kids == heap'[c].childs
       IN  /\ last'.ok
           /\ trees' = trees
           /\ Len(kids) = Len(heap[c].childs) + 1
           /\ SubSeq(kids, 1, Len(kids) - 1) = heap[c].childs
           /\ heap[Back(kids)].st = "unalloc"
           /\ heap'[Back(kids)] = [st |-> "live", father |-> c, childs |-> <<>>,
                                   elem |-> last'.x, rel |-> 0]
           /\ heap'[NavTarget(heap', c, Len(kids) - 1)].elem = last'.x
           /\ \A n \in Nodes \ {c, Back(kids)} : heap'[n] = heap[n]
           /\ heap'[c] = [heap[c] EXCEPT !.childs = kids]]_vars

\* A push onto a node that already had children.
C9_Witness ==
  /\ last.op = "push"
  /\ last.ok
  /\ Len(heap[trees[last.t].current].childs) >= 2

\* C10: insert(i, x) with i <= childs_len() on a non-empty tree puts a new node
\* holding x at position i, keeps the children before i in place, moves the
\* child at each position j >= i to j + 1 with its subtree untouched, and does
\* not move current.
C10_InsertShifts ==
  [][(last'.op = "insert" /\ ~IsEmpty(trees[last'.t])
        /\ last'.i <= ChildsLen(heap, trees[last'.t])) =>
       LET c == trees[last'.t].current
           i == last'.i
           old == heap[c].childs
           kids == heap'[c].childs
       IN  /\ last'.ok
           /\ trees' = trees
           /\ Len(kids) = Len(old) + 1
           /\ heap[kids[i + 1]].st = "unalloc"
           /\ heap'[kids[i + 1]] = [st |-> "live", father |-> c, childs |-> <<>>,
                                    elem |-> last'.x, rel |-> 0]
           /\ \A j \in 0..(Len(old) - 1) :
                IF j < i THEN kids[j + 1] = old[j + 1] ELSE kids[j + 2] = old[j + 1]
           /\ \A n \in Nodes \ {c, kids[i + 1]} : heap'[n] = heap[n]
           /\ heap'[c] = [heap[c] EXCEPT !.childs = kids]]_vars

\* An insert in front of a child, which it shifted.
C10_Witness ==
  /\ last.op = "insert"
  /\ last.ok
  /\ last.i + 1 < Len(heap[trees[last.t].current].childs)

----------------------------------------------------------------------------
\* The remaining operations of Tree, and a program that also uses trees that
\* hold no node.  A value an operation returns is recorded in last.out (a
\* bool as 1 or 0); a cursor or lazy iterator it returns is recorded by the
\* node it stands on (last.from).

Flag(b) == IF b THEN 1 ELSE 0

\* Tree::is_empty
IsEmptyOp(t) ==
  /\ trees[t].st = "live"
  /\ last' = [Did("is_empty", t) EXCEPT !.out = <<Flag(IsEmpty(trees[t]))>>]
  /\ UNCHANGED <<heap, trees>>

\* Tree::has_father
HasFatherOp(t) ==
  /\ trees[t].st = "live"
  /\ last' = [Did("has_father", t) EXCEPT !.out = <<Flag(HasFather(heap, trees[t]))>>]
  /\ UNCHANGED <<heap, trees>>

\* tree.peek()
PeekOp(t) ==
  /\ trees[t].st = "live"
  /\ LET r == Peek(heap, trees[t])
     IN  last' = IF r.ok THEN [Did("peek", t) EXCEPT !.out = <<r.val>>]
                 ELSE Panicked("peek", t)
  /\ UNCHANGED <<heap, trees>>

\* Tree::peek_child
PeekChild(t, i) ==
  /\ trees[t].st = "live"
  /\ IF IsEmpty(trees[t]) \/ i >= ChildsLen(heap, trees[t])
     THEN last' = [Panicked("peek_child", t) EXCEPT
                     !.i = i, !.msg = IF IsEmpty(trees[t]) THEN <<>>
                                      ELSE OutOfRangeMsg(i, ChildsLen(heap, trees[t]))]
     ELSE last' = [Did("peek_child", t) EXCEPT
                     !.i = i, !.out = <<heap[NavTarget(heap, trees[t].current, i)].elem>>]
  /\ UNCHANGED <<heap, trees>>

\* *tree.peek_child_mut(i) = v: the caller overwrites the element of the i-th
\* child of current with a value no node holds yet.
PeekChildMutWrite(t, i) ==
  /\ trees[t].st = "live"
  /\ IF IsEmpty(trees[t]) \/ i >= ChildsLen(heap, trees[t])
     THEN /\ last' = [Panicked("peek_child_mut", t) EXCEPT
                        !.i = i, !.msg = IF IsEmpty(trees[t]) THEN <<>>
                                         ELSE OutOfRangeMsg(i, ChildsLen(heap, trees[t]))]
          /\ UNCHANGED heap
     ELSE LET c == NavTarget(heap, trees[t].current, i)
          IN  /\ heap[c].elem >= 0
              /\ heap' = [heap EXCEPT ![c].elem = 0 - 1 - @]
              /\ last' = [Did("peek_child_mut", t) EXCEPT !.i = i, !.x = 0 - 1 - heap[c].elem]
  /\ UNCHANGED trees

\* Tree::childs_len
ChildsLenOp(t) ==
  /\ trees[t].st = "live"
  /\ IF IsEmpty(trees[t])
     THEN last' = Panicked("childs_len", t)
     ELSE last' = [Did("childs_len", t) EXCEPT !.out = <<ChildsLen(heap, trees[t])>>]
  /\ UNCHANGED <<heap, trees>>

\* tree.iter_childs(), collected.
IterChilds(t) ==
  /\ trees[t].st = "live"
  /\ IF IsEmpty(trees[t])
     THEN last' = Panicked("iter_childs", t)
     ELSE last' = [Did("iter_childs", t) EXCEPT
                     !.out = ElemsOf(heap, heap[trees[t].current].childs)]
  /\ UNCHANGED <<heap, trees>>

\* The constructors of cursors: three kinds on current, three on the root.
CursorKinds == {"cursor", "cursor_mut", "unsafe_cursor"}
CursorRootKinds == {"cursor_root", "cursor_root_mut", "unsafe_cursor_root"}

\* Tree::cursor, cursor_mut, unsafe_cursor, cursor_root, cursor_root_mut,
\* unsafe_cursor_root
CursorOp(t, kind) ==
  /\ trees[t].st = "live"
  /\ IF IsEmpty(trees[t])
     THEN last' = Panicked(kind, t)
     ELSE last' = [Did(kind, t) EXCEPT
                     !.from = IF kind \in CursorKinds THEN trees[t].current ELSE trees[t].root]
  /\ UNCHANGED <<heap, trees>>

\* Tree::lazyiter_mut: the iterator it returns stands on current.
LazyIterMut(t) ==
  /\ trees[t].st = "live"
  /\ IF IsEmpty(trees[t])
     THEN last' = Panicked("lazyiter_mut", t)
     ELSE last' = [Did("lazyiter_mut", t) EXCEPT !.from = LazyStart(trees[t].current).cur]
  /\ UNCHANGED <<heap, trees>>

\* Tree::iter_mut, collected: the elements behind the references it yields.
IterMutOut(h, tr) == IF IsEmpty(tr) THEN <<>> ELSE ElemsOf(h, IterRec(h, tr.current))

IterMut(t) ==
  /\ trees[t].st = "live"
  /\ last' = [Did("iter_mut", t) EXCEPT !.out = IterMutOut(heap, trees[t])]
  /\ UNCHANGED <<heap, trees>>

\* Number of node allocations a run of this program may perform in total.
MaxEmptyNodes == 2

EmptyInit ==
  /\ heap = [n \in 1..MaxEmptyNodes |-> BlankCell]
  /\ trees = [t \in TreeIds |-> NoTree]
  /\ last = NoOp
  /\ views = NoViews

EmptyNext ==
  \/ \E t \in TreeIds : FromElement(t) /\ UNCHANGED views
  \/ \E t \in TreeIds : Default(t) /\ UNCHANGED views
  \/ \E t \in TreeIds : IsEmptyOp(t) /\ UNCHANGED views
  \/ \E t \in TreeIds : HasFatherOp(t) /\ UNCHANGED views
  \/ \E t \in TreeIds : Iter(t) /\ UNCHANGED views
  \/ \E t \in TreeIds : IterMut(t) /\ UNCHANGED views
  \/ \E t \in TreeIds : Push(t) /\ UNCHANGED views
  \/ \E t \in TreeIds : \E i \in Idx(heap, trees[t]) : Insert(t, i) /\ UNCHANGED views
  \/ \E t \in TreeIds : \E i \in Idx(heap, trees[t]) : NavigateTo(t, i) /\ UNCHANGED views
  \/ \E t \in TreeIds : Ascend(t) /\ UNCHANGED views
  \/ \E t \in TreeIds : GoToRoot(t) /\ UNCHANGED views
  \/ \E t \in TreeIds : PeekOp(t) /\ UNCHANGED views
  \/ \E t \in TreeIds : PeekMutWrite(t) /\ UNCHANGED views
  \/ \E t \in TreeIds : \E i \in Idx(heap, trees[t]) : PeekChild(t, i) /\ UNCHANGED views
  \/ \E t \in TreeIds : \E i \in Idx(heap, trees[t]) : PeekChildMutWrite(t, i) /\ UNCHANGED views
  \/ \E t \in TreeIds : ChildsLenOp(t) /\ UNCHANGED views
  \/ \E t \in TreeIds : IterChilds(t) /\ UNCHANGED views
  \/ \E t \in TreeIds, u \in TreeIds : \E i \in Idx(heap, trees[t]) : Split(t, i, u) /\ UNCHANGED views
  \/ \E t \in TreeIds, u \in TreeIds : \E i \in Idx(heap, trees[t]) : Join(t, u, i) /\ UNCHANGED views
  \/ \E t \in TreeIds : IntoVec(t) /\ UNCHANGED views
  \/ \E t \in TreeIds, u \in TreeIds : Clone(t, u) /\ UNCHANGED views
  \/ \E t \in TreeIds : \E kind \in CursorKinds \cup CursorRootKinds : CursorOp(t, kind) /\ UNCHANGED views
  \/ \E t \in TreeIds : LazyIter(t) /\ UNCHANGED views
  \/ \E t \in TreeIds : LazyIterMut(t) /\ UNCHANGED views

EmptySpec == EmptyInit /\ [][EmptyNext]_vars

----------------------------------------------------------------------------
\* Shapes: a node of a tree is named by its path, the child indices (from 1)
\* that lead to it from the root.

RECURSIVE Paths(_, _)
Paths(h, n) ==
  {<<>>} \cup UNION {{<<k>> \o p : p \in Paths(h, h[n].childs[k])} : k \in 1..Len(h[n].childs)}

RECURSIVE NodeAt(_, _, _)
NodeAt(h, n, p) == IF p = <<>> THEN n ELSE NodeAt(h, h[n].childs[Head(p)], Tail(p))

\* The tree under n as a set of (path, element) pairs: its shape and elements.
Labelled(h, n) == {<<p, h[NodeAt(h, n, p)].elem>> : p \in Paths(h, n)}

\* The path from r to the node c below it.
PathTo(h, r, c) == CHOOSE p \in Paths(h, r) : NodeAt(h, r, p) = c

\* The trees other than t that are in scope and hold nodes.
Others(t) == {u \in LiveTrees \ {t} : trees[u].root # 0}

\* C11: clone() of a non-empty tree is a deep copy: iter() on the clone and on
\* the source yield equal element sequences, the clone shares no node with the
\* source, and a later element write, push or drop on either tree leaves the
\* other tree's nodes, elements, shape and position unchanged.
C11_CloneIsDeepCopy ==
  [][/\ (last'.op = "clone" /\ ~IsEmpty(trees[last'.t])) =>
          /\ last'.ok
          /\ IterOut(heap', trees'[last'.u]) = IterOut(heap', trees'[last'.t])
          /\ Labelled(heap', trees'[last'.u].root) = Labelled(heap', trees'[last'.t].root)
          /\ Reach(heap', trees'[last'.u].root) \cap Reach(heap', trees'[last'.t].root) = {}
          /\ Reach(heap', trees'[last'.u].root) \cap Allocated(heap) = {}
          /\ trees'[last'.t] = trees[last'.t]
          /\ \A n \in Allocated(heap) : heap'[n] = heap[n]
     /\ last'.op \in {"peek_mut", "push", "drop", "navigate_to"} =>
          \A u \in Others(last'.t) :
            /\ trees'[u] = trees[u]
            /\ \A n \in Reach(heap, trees[u].root) : heap'[n] = heap[n]
            /\ Labelled(heap', trees'[u].root) = Labelled(heap, trees[u].root)]_vars

\* A tree and its clone, each of several nodes, after the element of one was
\* overwritten: they no longer hold the same elements.
C11_Witness ==
  /\ last.op = "peek_mut"
  /\ last.ok
  /\ \E u \in Others(last.t) :
        /\ Cardinality(Reach(heap, trees[u].root)) >= 2
        /\ Paths(heap, trees[u].root) = Paths(heap, trees[last.t].root)
        /\ Labelled(heap, trees[u].root) # Labelled(heap, trees[last.t].root)

\* C12: the clone of a non-empty tree has the shape of the whole source tree
\* (the same paths, so the same child counts and order everywhere), and its
\* current is the node at the path of the source's current, be that the root,
\* an inner node or a leaf.
C12_ClonePosition ==
  [][(last'.op = "clone" /\ ~IsEmpty(trees[last'.t])) =>
       LET src == trees[last'.t]
           new == trees'[last'.u]
       IN  /\ last'.ok
           /\ new.root # 0
           /\ heap'[new.root].father = 0
           /\ Paths(heap', new.root) = Paths(heap, src.root)
           /\ new.current \in Reach(heap', new.root)
           /\ PathTo(heap', new.root, new.current) = PathTo(heap, src.root, src.current)]_vars

\* A clone of a chain of three nodes whose current was the inner node.
C12_Witness ==
  /\ last.op = "clone"
  /\ last.ok
  /\ LET c == trees[last.u].current
     IN  /\ heap[c].father # 0
         /\ heap[c].childs # <<>>

\* C13: split(i) with i < childs_len() removes exactly the i-th child of current
\* (the other children keep their order, current does not move) and returns a
\* tree whose root and current are the detached node, with no father and its
\* subtree unchanged; the two trees share no node, and a drop of one tree
\* releases no node of another.
C13_SplitDetaches ==
  [][/\ (last'.op = "split" /\ ~IsEmpty(trees[last'.t])
           /\ last'.i < ChildsLen(heap, trees[last'.t])) =>
          LET c == trees[last'.t].current
              i == last'.i
              d == heap[c].childs[i + 1]
          IN  /\ last'.ok
              /\ trees'[last'.t] = trees[last'.t]
              /\ heap'[c] = [heap[c] EXCEPT !.childs = VecRemove(heap[c].childs, i)]
              /\ Len(heap'[c].childs) = Len(heap[c].childs) - 1
              /\ \A j \in 1..Len(heap'[c].childs) :
                   heap'[c].childs[j] = heap[c].childs[IF j <= i THEN j ELSE j + 1]
              /\ trees[last'.u].st = "none"
              /\ trees'[last'.u] = MkTree(d, d)
              /\ heap'[d] = [heap[d] EXCEPT !.father = 0]
              /\ \A n \in Nodes \ {c, d} : heap'[n] = heap[n]
              /\ Labelled(heap', d) = Labelled(heap, d)
              /\ Reach(heap', d) \cap Reach(heap', trees'[last'.t].root) = {}
              /\ \A v \in TreeIds \ {last'.t, last'.u} : trees'[v] = trees[v]
     /\ last'.op = "drop" =>
          \A u \in Others(last'.t) :
            \A n \in Reach(heap, trees[u].root) : heap'[n] = heap[n] /\ heap'[n].st = "live"]_vars

\* A split that detached a child together with its own child.
C13_Witness ==
  /\ last.op = "split"
  /\ last.ok
  /\ heap[trees[last.u].root].childs # <<>>
  /\ trees[last.t].root # 0

\* C14: s = split(i) with i < childs_len() directly followed by join(s, i) on
\* the same tree gives back the tree as it was before the split: the same
\* nodes with the same links and elements, hence the same iter() sequence from
\* the root and the same shape, and the same current.
C14_SplitThenJoin ==
  [][(last.op = "split" /\ last.ok /\ last'.op = "join" /\ last'.t = last.t
        /\ last'.u = last.u /\ last'.i = last.i) =>
       LET before == last.pre
       IN  /\ last'.ok
           /\ heap' = before.h
           /\ trees'[last.t] = before.tr
           /\ ElemsOf(heap', IterRec(heap', trees'[last.t].root))
                = ElemsOf(before.h, IterRec(before.h, before.tr.root))
           /\ Labelled(heap', trees'[last.t].root) = Labelled(before.h, before.tr.root)]_vars

\* A join that put back the child that a split had just detached from a node
\* below the root.
C14_Witness ==
  /\ last.op = "join"
  /\ last.ok
  /\ last.pre.tr.st = "live"
  /\ last.pre.tr.current # last.pre.tr.root

\* C15: join(other, i) on two non-empty trees with i <= childs_len() makes
\* other's root the i-th child of the receiver's current, fathered by it, with
\* its subtree unchanged; the children formerly at positions >= i move one
\* place right, the receiver's current does not move, and nothing else
\* changes, wherever other's own current was.
C15_JoinTransplants ==
  [][(last'.op = "join" /\ ~IsEmpty(trees[last'.t]) /\ ~IsEmpty(trees[last'.u])
        /\ last'.i <= ChildsLen(heap, trees[last'.t])) =>
       LET c == trees[last'.t].current
           i == last'.i
           o == trees[last'.u].root
           old == heap[c].childs
           kids == heap'[c].childs
       IN  /\ last'.ok
           /\ trees'[last'.t] = trees[last'.t]
           /\ Len(kids) = Len(old) + 1
           /\ kids[i + 1] = o
           /\ \A j \in 0..(Len(old) - 1) :
                IF j < i THEN kids[j + 1] = old[j + 1] ELSE kids[j + 2] = old[j + 1]
           /\ heap'[c] = [heap[c] EXCEPT !.childs = kids]
           /\ heap'[o] = [heap[o] EXCEPT !.father = c]
           /\ \A n \in Nodes \ {c, o} : heap'[n] = heap[n]
           /\ Labelled(heap', o) = Labelled(heap, o)
           /\ ElemsOf(heap', IterRec(heap', o)) = ElemsOf(heap, IterRec(heap, o))]_vars

\* A join whose donor had its current on a child of its root.
C15_Witness ==
  /\ last.op = "join"
  /\ last.ok
  /\ last.donor.current # last.from
  /\ heap[last.from].father = trees[last.t].current
  /\ heap[last.from].childs # <<>>

\* C16: after a join the donor is empty, its root and its current both cleared,
\* and its destruction at the end of the call has released none of the
\* transplanted nodes.
C16_DonorEmptied ==
  (last.op = "join" /\ last.ok) =>
    /\ last.donor.root = 0
    /\ last.donor.current = 0
    /\ \A n \in Reach(heap, last.from) : heap[n].st = "live" /\ heap[n].rel = 0

\* What holds of the donor: join clears its root, so that its destruction
\* releases no transplanted node, and the transplanted root then has one owner,
\* the receiver's child list; the donor's current still points at its old node.
DonorRootCleared ==
  (last.op = "join" /\ last.ok) =>
    /\ last.donor.root = 0
    /\ last.donor.current # 0
    /\ \A n \in Reach(heap, last.from) : heap[n].st = "live" /\ heap[n].rel = 0
    /\ OwnerCount(last.from) = 1

\* C17: into_vec() with current at the root returns the elements of the whole
\* tree in pre-order, releases every node of the tree exactly once and no
\* other, and leaves the tree empty (root and current None), so that peek() is
\* then fatal and a drop releases nothing.
C17_IntoVecAtRoot ==
  [][(last'.op = "into_vec" /\ ~IsEmpty(trees[last'.t])
        /\ ~HasFather(heap, trees[last'.t])) =>
       LET tr == trees[last'.t]
           R == Reach(heap, tr.root)
       IN  /\ last'.ok
           /\ tr.current = tr.root
           /\ last'.out = ElemsOf(heap, IterRec(heap, tr.root))
           /\ Len(last'.out) = Cardinality(R)
           /\ \A n \in Nodes :
                IF n \in R
                THEN heap[n].st = "live" /\ heap'[n].st = "released" /\ heap'[n].rel = 1
                ELSE heap'[n] = heap[n]
           /\ trees'[last'.t] = MkTree(0, 0)
           /\ IsEmpty(trees'[last'.t])
           /\ ~Peek(heap', trees'[last'.t]).ok
           /\ DropValue(heap', trees'[last'.t]) = heap'
           /\ \A u \in TreeIds \ {last'.t} : trees'[u] = trees[u]]_vars

\* An into_vec at the root of a tree of three nodes.
C17_Witness ==
  /\ last.op = "into_vec"
  /\ last.ok
  /\ IsEmpty(trees[last.t])
  /\ Len(last.out) = 3
  /\ \A k \in 1..Len(last.out) : heap[last.out[k] + 1].st = "released"

\* C18: into_vec() with current below the root returns the pre-order element
\* sequence of the subtree rooted at current, removes exactly that subtree from
\* its parent's child list, releases its nodes exactly once, leaves current at
\* the former parent, and leaves every other node (ancestors, siblings, their
\* subtrees, order and elements) and the root unchanged.
C18_IntoVecBelowRoot ==
  [][(last'.op = "into_vec" /\ ~IsEmpty(trees[last'.t])
        /\ HasFather(heap, trees[last'.t])) =>
       LET tr == trees[last'.t]
           c == tr.current
           up == heap[c].father
           R == Reach(heap, c)
       IN  /\ last'.ok
           /\ last'.out = ElemsOf(heap, IterRec(heap, c))
           /\ Len(last'.out) = Cardinality(R)
           /\ trees'[last'.t] = [tr EXCEPT !.current = up]
           /\ c \in Range(heap[up].childs)
           /\ heap'[up] = [heap[up] EXCEPT !.childs = VecRemove(@, FirstIndexOf(@, c))]
           /\ Range(heap'[up].childs) = Range(heap[up].childs) \ {c}
           /\ \A n \in Nodes \ {up} :
                IF n \in R
                THEN heap[n].st = "live" /\ heap'[n].st = "released" /\ heap'[n].rel = 1
                ELSE heap'[n] = heap[n]
           /\ Reach(heap', tr.root) = Reach(heap, tr.root) \ R
           /\ \A u \in TreeIds \ {last'.t} : trees'[u] = trees[u]]_vars

\* An into_vec on the second child of the root: the first child stays.
C18_Witness ==
  /\ last.op = "into_vec"
  /\ last.ok
  /\ ~IsEmpty(trees[last.t])
  /\ trees[last.t].current = trees[last.t].root
  /\ heap[last.from].st = "released"
  /\ Len(heap[trees[last.t].root].childs) = 1
  /\ heap[trees[last.t].root].childs[1] < last.from

\* The number of nodes in the subtrees of the first k entries of kids.
RECURSIVE SizeOfFirst(_, _, _)
SizeOfFirst(h, kids, k) ==
  IF k = 0 THEN 0 ELSE Cardinality(Reach(h, kids[k])) + SizeOfFirst(h, kids, k - 1)

\* ns lists the nodes of the subtree under c in pre-order, each node once:
\* c comes first, and the j-th child of a node comes right after the node and
\* the whole subtrees of the children before it.
IsPreOrder(h, c, ns) ==
  LET R == Reach(h, c)
      pos(n) == CHOOSE k \in 1..Len(ns) : ns[k] = n
  IN  /\ ns[1] = c
      /\ Len(ns) = Cardinality(R)
      /\ Range(ns) = R
      /\ \A n \in R : \A j \in 1..Len(h[n].childs) :
           pos(h[n].childs[j]) = pos(n) + 1 + SizeOfFirst(h, h[n].childs, j - 1)

\* The orderings of the nodes under c that are pre-orders.
PreOrders(h, c) ==
  {ns \in [1..Cardinality(Reach(h, c)) -> Reach(h, c)] : IsPreOrder(h, c, ns)}

\* C19: iter() yields the elements of the subtree rooted at current (not of the
\* whole tree when current is below the root) in pre-order, each node once,
\* without moving current or changing anything; on an empty tree it yields
\* the empty sequence and is not fatal.
C19_IterPreOrder ==
  [][last'.op = "iter" =>
       /\ last'.ok
       /\ heap' = heap
       /\ trees' = trees
       /\ IF IsEmpty(trees[last'.t])
          THEN last'.out = <<>>
          ELSE LET P == PreOrders(heap, trees[last'.t].current)
               IN  /\ Cardinality(P) = 1
                   /\ \A ns \in P : last'.out = ElemsOf(heap, ns)]_vars

\* An iter from a node below the root that has a child of its own.
C19_Witness ==
  /\ last.op = "iter"
  /\ last.ok
  /\ ~IsEmpty(trees[last.t])
  /\ trees[last.t].current # trees[last.t].root
  /\ Len(last.out) >= 2

\* An iter on an empty tree.
IterOnEmptyTree ==
  /\ last.op = "iter"
  /\ IsEmpty(trees[last.t])

\* The operations that are fatal on an empty tree.
FatalOnEmpty ==
  {"push", "insert", "navigate_to", "ascend", "go_to_root", "peek", "peek_mut",
   "peek_child", "childs_len", "iter_childs", "split", "join", "into_vec", "clone",
   "cursor", "cursor_root", "cursor_mut", "unsafe_cursor", "lazyiter", "lazyiter_mut"}

\* C20: on an empty tree (from default(), or emptied by into_vec at the root)
\* every operation but is_empty, has_father, iter and iter_mut is a fatal
\* error and leaves the tree empty and the heap as it was; join is fatal with
\* an empty receiver and with an empty donor; the four others return.
C20_FatalOnEmptyTree ==
  [][/\ (last'.op \in FatalOnEmpty /\ IsEmpty(trees[last'.t])) =>
          /\ ~last'.ok
          /\ trees'[last'.t] = MkTree(0, 0)
          /\ last'.op # "join" => (heap' = heap /\ trees' = trees)
     /\ (last'.op = "join" /\ IsEmpty(trees[last'.u])) =>
          /\ ~last'.ok
          /\ trees'[last'.t] = trees[last'.t]
          /\ heap' = heap
     /\ (last'.op \in {"is_empty", "has_father", "iter", "iter_mut"}
           /\ IsEmpty(trees[last'.t])) =>
          /\ last'.ok
          /\ heap' = heap
          /\ trees' = trees]_vars

\* A fatal peek on a tree that holds no node, after nodes were released.
C20_Witness ==
  /\ last.op = "peek"
  /\ ~last.ok
  /\ trees[last.t] = MkTree(0, 0)
  /\ \E n \in DOMAIN heap : heap[n].st = "released"

\* C21: has_father() returns true exactly when current is not the root of the
\* tree; on an empty tree it returns false and is not fatal; it changes
\* nothing.
C21_HasFather ==
  [][last'.op = "has_father" =>
       LET tr == trees[last'.t]
       IN  /\ last'.ok
           /\ heap' = heap
           /\ trees' = trees
           /\ last'.out = <<Flag(~IsEmpty(tr) /\ tr.current # tr.root)>>
           /\ IsEmpty(tr) => last'.out = <<0>>]_vars

\* has_father() answered true.
C21_Witness ==
  /\ last.op = "has_father"
  /\ last.ok
  /\ last.out = <<1>>
  /\ trees[last.t].current # trees[last.t].root

\* has_father() on an empty tree.
HasFatherOnEmptyTree ==
  /\ last.op = "has_father"
  /\ IsEmpty(trees[last.t])

NavigateToZeroOnChildless ==
  /\ last.op = "navigate_to"
  /\ ~last.ok
  /\ last.i = 0
  /\ last.msg = <<0, 0>>

\* C24: on a non-empty tree insert(i, x) returns for every i <= childs_len()
\* (i = childs_len() appends) and is a fatal error for every i > childs_len();
\* the index is never clamped or wrapped: a failed insert puts the node in no
\* child list.
C24_InsertIndexRange ==
  [][(last'.op = "insert" /\ ~IsEmpty(trees[last'.t])) =>
       LET c == trees[last'.t].current
           old == heap[c].childs
           i == last'.i
       IN  /\ last'.ok <=> (i <= Len(old))
           /\ trees' = trees
           /\ i = Len(old) =>
                /\ Len(heap'[c].childs) = Len(old) + 1
                /\ Front(heap'[c].childs) = old
                /\ heap[Back(heap'[c].childs)].st = "unalloc"
           /\ i < Len(old) => heap'[c].childs[i + 1] \notin Range(old)
           /\ i > Len(old) =>
                \A n \in Allocated(heap) : heap'[n].childs = heap[n].childs]_vars

\* An insert that failed one past the end of a non-empty child list.
C24_Witness ==
  /\ last.op = "insert"
  /\ ~last.ok
  /\ ~IsEmpty(trees[last.t])
  /\ heap[trees[last.t].current].childs # <<>>
  /\ last.i = Len(heap[trees[last.t].current].childs) + 1

\* An insert at the index equal to the child count of a node with a child.
InsertAtLen ==
  /\ last.op = "insert"
  /\ last.ok
  /\ last.i >= 1
  /\ last.i + 1 = Len(heap[trees[last.t].current].childs)

\* C25: on a non-empty tree split(i), peek_child(i) and peek_child_mut(i) with
\* i >= childs_len() are fatal errors whose message reports the index and the
\* child count; they remove no child and move neither root nor current.
C25_ChildIndexOutOfRange ==
  [][(last'.op \in {"split", "peek_child", "peek_child_mut"} /\ ~IsEmpty(trees[last'.t])
        /\ last'.i >= ChildsLen(heap, trees[last'.t])) =>
       /\ ~last'.ok
       /\ last'.msg = <<last'.i, ChildsLen(heap, trees[last'.t])>>
       /\ heap' = heap
       /\ trees' = trees]_vars

\* A split that failed on a node that has a child.
C25_Witness ==
  /\ last.op = "split"
  /\ ~last.ok
  /\ ~IsEmpty(trees[last.t])
  /\ heap[trees[last.t].current].childs # <<>>
  /\ last.msg = <<last.i, 1>>

----------------------------------------------------------------------------
\* Cursors (src/src/cursor.rs).  Cursor, CursorMut and UnsafeCursor are values
\* of their own: each holds a pointer to a node (cur) and, as PhantomData, the
\* lifetime 'a of the borrow of the tree it was made from.  The three impl
\* blocks have the same bodies for navigate_to, ascend, peek, peek_child,
\* childs_len and has_father; they differ in the borrows their signatures take.
\*
\* A view records the loan that keeps it alive: src is the tree or the view it
\* borrows from and mode is the kind of that borrow.  The compiler accepts a
\* call that takes &self on r when every live loan on r is shared, and a call
\* that takes &mut self on r when no loan on r is live.

\* Number of node allocations of a run of the cursor specification.
MaxCursorNodes == 3
\* The variables that hold cursors in the cursor specification.
CursorViewIds == {"v1", "v2"}
CursorTypes == {"Cursor", "CursorMut", "UnsafeCursor"}
\* Values a caller stores through a mutable reference to an element.
WriteVals == {0 - 1, 0 - 2}

LiveOn(vs, r) == {w \in ViewIds : vs[w].st = "live" /\ vs[w].src = r}
CanShare(vs, r) == \A w \in LiveOn(vs, r) : vs[w].mode = "shared"
CanMut(vs, r) == LiveOn(vs, r) = {}
CanUse(vs, r, mode) == IF mode = "mut" THEN CanMut(vs, r) ELSE CanShare(vs, r)

\* The type a constructor of Tree returns and the borrow of the tree it takes.
CursorTypeOf(method) ==
  IF method \in {"cursor", "cursor_root"} THEN "Cursor"
  ELSE IF method \in {"cursor_mut", "cursor_root_mut"} THEN "CursorMut"
  ELSE "UnsafeCursor"
BorrowOf(method) == IF method \in {"cursor_mut", "cursor_root_mut"} THEN "mut" ELSE "shared"

\* Constructors that all start on the root.
CursorStart_AlwaysRoot(tr, method) == tr.root

\* The node a new cursor stands on: current, or the root for the *_root
\* constructors.
CursorStart(tr, method) == IF method \in CursorKinds THEN tr.current ELSE tr.root

\* Tree::cursor, cursor_mut, unsafe_cursor, cursor_root, cursor_root_mut,
\* unsafe_cursor_root, the result bound to variable v.
MakeCursor(v, t, method) ==
  /\ trees[t].st = "live"
  /\ views[v].st = "none"
  /\ CanUse(views, t, BorrowOf(method))
  /\ IF IsEmpty(trees[t])
     THEN /\ last' = [Panicked(method, t) EXCEPT !.v = v]
          /\ UNCHANGED views
     ELSE /\ views' = [views EXCEPT ![v] =
                         [NoView EXCEPT
                            !.st = "live", !.kind = CursorTypeOf(method), !.tree = t,
                            !.cur = CursorStart(trees[t], method), !.src = t,
                            !.mode = BorrowOf(method), !.by = method]]
          /\ last' = [Did(method, t) EXCEPT
                        !.v = v, !.res = v, !.from = CursorStart(trees[t], method)]
  /\ UNCHANGED <<heap, trees>>

IsCursor(vw) == vw.st = "live" /\ vw.kind \in CursorTypes

\* The accessors of a cursor standing on node c.
CursorChildsLen(h, c) == Len(h[c].childs)
CursorHasFather(h, c) == h[c].father # 0
CursorPeek(h, c) == h[c].elem
CursorPeekChild(h, c, index) == h[h[c].childs[index + 1]].elem
CursorNavTarget(h, c, index) == h[c].childs[index + 1]

\* An ascend that stays where it is.
CursorAscendTarget_Self(h, c) == c

\* The position a cursor's ascend moves to.
CursorAscendTarget(h, c) == h[c].father

\* A move that drags every cursor along.
CursorMove_All(vs, v, n) ==
  [w \in ViewIds |-> IF IsCursor(vs[w]) THEN [vs[w] EXCEPT !.cur = n] ELSE vs[w]]

\* self.current = n
CursorMove(vs, v, n) == [vs EXCEPT ![v].cur = n]

\* Indices a caller passes to a cursor on node c: every index of a child and
\* the child count itself.
CursorIdx(h, c) == 0..Len(h[c].childs)

\* Cursor::navigate_to, CursorMut::navigate_to, UnsafeCursor::navigate_to
CursorNavigateTo(v, i) ==
  /\ IsCursor(views[v])
  /\ CanMut(views, v)
  /\ i \in CursorIdx(heap, views[v].cur)
  /\ IF i >= CursorChildsLen(heap, views[v].cur)
     THEN /\ last' = [Panicked("cursor.navigate_to", views[v].tree) EXCEPT
                        !.v = v, !.i = i, !.from = views[v].cur,
                        !.msg = OutOfRangeMsg(i, CursorChildsLen(heap, views[v].cur))]
          /\ UNCHANGED views
     ELSE /\ views' = CursorMove(views, v, CursorNavTarget(heap, views[v].cur, i))
          /\ last' = [Did("cursor.navigate_to", views[v].tree) EXCEPT
                        !.v = v, !.i = i, !.from = views[v].cur]
  /\ UNCHANGED <<heap, trees>>

\* Cursor::ascend, CursorMut::ascend, UnsafeCursor::ascend
CursorAscend(v) ==
  /\ IsCursor(views[v])
  /\ CanMut(views, v)
  /\ IF ~CursorHasFather(heap, views[v].cur)
     THEN /\ last' = [Panicked("cursor.ascend", views[v].tree) EXCEPT
                        !.v = v, !.from = views[v].cur]
          /\ UNCHANGED views
     ELSE /\ views' = CursorMove(views, v, CursorAscendTarget(heap, views[v].cur))
          /\ last' = [Did("cursor.ascend", views[v].tree) EXCEPT
                        !.v = v, !.from = views[v].cur]
  /\ UNCHANGED <<heap, trees>>

\* Cursor::peek, CursorMut::peek, UnsafeCursor::peek, the element read at once.
CursorPeekOp(v) ==
  /\ IsCursor(views[v])
  /\ CanShare(views, v)
  /\ last' = [Did("cursor.peek", views[v].tree) EXCEPT
                !.v = v, !.from = views[v].cur, !.out = <<CursorPeek(heap, views[v].cur)>>]
  /\ UNCHANGED <<heap, trees, views>>

\* Cursor::peek_child, CursorMut::peek_child, UnsafeCursor::peek_child
CursorPeekChildOp(v, i) ==
  /\ IsCursor(views[v])
  /\ CanShare(views, v)
  /\ i \in CursorIdx(heap, views[v].cur)
  /\ IF i >= CursorChildsLen(heap, views[v].cur)
     THEN last' = [Panicked("cursor.peek_child", views[v].tree) EXCEPT
                     !.v = v, !.i = i, !.from = views[v].cur,
                     !.msg = OutOfRangeMsg(i, CursorChildsLen(heap, views[v].cur))]
     ELSE last' = [Did("cursor.peek_child", views[v].tree) EXCEPT
                     !.v = v, !.i = i, !.from = views[v].cur,
                     !.out = <<CursorPeekChild(heap, views[v].cur, i)>>]
  /\ UNCHANGED <<heap, trees, views>>

\* Cursor::childs_len, CursorMut::childs_len, UnsafeCursor::childs_len
CursorChildsLenOp(v) ==
  /\ IsCursor(views[v])
  /\ CanShare(views, v)
  /\ last' = [Did("cursor.childs_len", views[v].tree) EXCEPT
                !.v = v, !.from = views[v].cur,
                !.out = <<CursorChildsLen(heap, views[v].cur)>>]
  /\ UNCHANGED <<heap, trees, views>>

\* Cursor::has_father, CursorMut::has_father, UnsafeCursor::has_father
CursorHasFatherOp(v) ==
  /\ IsCursor(views[v])
  /\ CanShare(views, v)
  /\ last' = [Did("cursor.has_father", views[v].tree) EXCEPT
                !.v = v, !.from = views[v].cur,
                !.out = <<Flag(CursorHasFather(heap, views[v].cur))>>]
  /\ UNCHANGED <<heap, trees, views>>

\* A write that also lands in the father of the node.
UnsafeWrite_Spill(h, n, x) ==
  IF h[n].father = 0 THEN [h EXCEPT ![n].elem = x]
  ELSE [h EXCEPT ![n].elem = x, ![h[n].father].elem = x]

\* *p = x for the p that UnsafeCursor::peek_mut returns on node n.
UnsafeWrite(h, n, x) == [h EXCEPT ![n].elem = x]

\* unsafe { *cursor.peek_mut() = x } on an UnsafeCursor
UnsafePeekMutWrite(v, x) ==
  /\ IsCursor(views[v])
  /\ views[v].kind = "UnsafeCursor"
  /\ CanShare(views, v)
  /\ heap' = UnsafeWrite(heap, views[v].cur, x)
  /\ last' = [Did("unsafe.peek_mut", views[v].tree) EXCEPT
                !.v = v, !.x = x, !.from = views[v].cur]
  /\ UNCHANGED <<trees, views>>

\* The end of the scope of view v: nothing that borrows from it is still live.
\* What was obtained from v and outlives it no longer has a cursor it came from.
ReleaseView(v) ==
  /\ views[v].st = "live"
  /\ LiveOn(views, v) = {}
  /\ views' = [w \in ViewIds |->
                 IF w = v THEN NoView
                 ELSE IF views[w].of = v THEN [views[w] EXCEPT !.of = "-"]
                 ELSE views[w]]
  /\ last' = [Did("release", views[v].tree) EXCEPT !.v = v]
  /\ UNCHANGED <<heap, trees>>

\* The methods of Tree that return a reference or an iterator: the borrow of
\* the tree the receiver takes, and the type returned.  The lifetime of the
\* result is the one of that borrow ('_).
Sig(on, recv, life, res) == [on |-> on, recv |-> recv, life |-> life, res |-> res]
TreeSigs ==
  [m \in {"Tree::peek", "Tree::peek_mut", "Tree::peek_child", "Tree::peek_child_mut",
          "Tree::iter_childs", "Tree::iter_childs_mut", "Tree::iter", "Tree::iter_mut",
          "Tree::lazyiter", "Tree::lazyiter_mut"} |->
     CASE m = "Tree::peek" -> Sig("Tree", "shared", "self", "&T")
       [] m = "Tree::peek_mut" -> Sig("Tree", "mut", "self", "&mut T")
       [] m = "Tree::peek_child" -> Sig("Tree", "shared", "self", "&T")
       [] m = "Tree::peek_child_mut" -> Sig("Tree", "mut", "self", "&mut T")
       [] m = "Tree::iter_childs" -> Sig("Tree", "shared", "self", "ChildIterator")
       [] m = "Tree::iter_childs_mut" -> Sig("Tree", "shared", "self", "ChildIteratorMut")
       [] m = "Tree::iter" -> Sig("Tree", "shared", "self", "IntoIter<&T>")
       [] m = "Tree::iter_mut" -> Sig("Tree", "shared", "self", "IntoIter<&mut T>")
       [] m = "Tree::lazyiter" -> Sig("Tree", "shared", "self", "LazyTreeIterator")
       [] m = "Tree::lazyiter_mut" -> Sig("Tree", "mut", "self", "LazyTreeIteratorMut")]

\* The methods of the cursors that return a reference or an iterator and are
\* not marked unsafe: the type they belong to, the borrow of the cursor the
\* receiver takes, the lifetime of the result and its type.  "self" is the
\* lifetime of the borrow of the cursor; "a" is the cursor's parameter 'a, the
\* lifetime of the borrow of the tree the cursor was made from, so that the
\* result does not borrow the cursor.  "impl" is a return type
\* impl Iterator<Item = &'a ..>, which holds the borrow of the cursor in an
\* edition whose impl Trait captures every lifetime in scope and does not
\* hold it in an earlier edition; the repository names no edition.
CursorSigs ==
  [m \in {"Cursor::peek", "Cursor::peek_child", "Cursor::iter_childs", "Cursor::iter",
          "Cursor::lazyiter",
          "CursorMut::peek", "CursorMut::peek_mut", "CursorMut::peek_child",
          "CursorMut::peek_child_mut", "CursorMut::iter_childs",
          "CursorMut::iter_childs_mut", "CursorMut::iter", "CursorMut::iter_mut",
          "CursorMut::lazyiter", "CursorMut::lazyiter_mut",
          "UnsafeCursor::peek", "UnsafeCursor::peek_child", "UnsafeCursor::iter_childs"} |->
     CASE m = "Cursor::peek" -> Sig("Cursor", "shared", "a", "&T")
       [] m = "Cursor::peek_child" -> Sig("Cursor", "shared", "a", "&T")
       [] m = "Cursor::iter_childs" -> Sig("Cursor", "shared", "a", "ChildIterator")
       [] m = "Cursor::iter" -> Sig("Cursor", "shared", "impl", "IntoIter<&T>")
       [] m = "Cursor::lazyiter" -> Sig("Cursor", "shared", "a", "LazyTreeIterator")
       [] m = "CursorMut::peek" -> Sig("CursorMut", "shared", "a", "&T")
       [] m = "CursorMut::peek_mut" -> Sig("CursorMut", "mut", "self", "&mut T")
       [] m = "CursorMut::peek_child" -> Sig("CursorMut", "shared", "a", "&T")
       [] m = "CursorMut::peek_child_mut" -> Sig("CursorMut", "mut", "self", "&mut T")
       [] m = "CursorMut::iter_childs" -> Sig("CursorMut", "shared", "a", "ChildIterator")
       [] m = "CursorMut::iter_childs_mut" ->
            Sig("CursorMut", "shared", "a", "ChildIteratorMut")
       [] m = "CursorMut::iter" -> Sig("CursorMut", "shared", "impl", "IntoIter<&T>")
       [] m = "CursorMut::iter_mut" -> Sig("CursorMut", "mut", "impl", "IntoIter<&mut T>")
       [] m = "CursorMut::lazyiter" -> Sig("CursorMut", "shared", "a", "LazyTreeIterator")
       [] m = "CursorMut::lazyiter_mut" ->
            Sig("CursorMut", "mut", "a", "LazyTreeIteratorMut")
       [] m = "UnsafeCursor::peek" -> Sig("UnsafeCursor", "shared", "a", "&T")
       [] m = "UnsafeCursor::peek_child" -> Sig("UnsafeCursor", "shared", "a", "&T")
       [] m = "UnsafeCursor::iter_childs" -> Sig("UnsafeCursor", "shared", "a", "ChildIterator")]

\* The types whose values give mutable access to elements.
Mutable(kind) ==
  kind \in {"&mut T", "ChildIteratorMut", "IntoIter<&mut T>", "LazyTreeIteratorMut"}
\* The methods that take an index of a child.
ChildMethods ==
  {"Tree::peek_child", "Tree::peek_child_mut", "Cursor::peek_child",
   "CursorMut::peek_child", "CursorMut::peek_child_mut", "UnsafeCursor::peek_child"}

\* The view a method returns: a reference to the element of node n or an
\* iterator that starts from node n.
NewView(h, kind, t, n, src, mode, by, of) ==
  [st |-> "live", kind |-> kind, tree |-> t, cur |-> n, src |-> src, mode |-> mode,
   mut |-> Mutable(kind), by |-> by, of |-> of, start |-> n, seen |-> <<>>, i |-> 0,
   len |-> IF kind \in {"ChildIterator", "ChildIteratorMut"} THEN Len(h[n].childs) ELSE 0,
   idx |-> IF kind \in {"LazyTreeIterator", "LazyTreeIteratorMut"} THEN LazyStart(n).idx
           ELSE <<>>]

\* A method of Tree that returns a reference or an iterator, the result bound
\* to variable v.  iter and iter_mut return an empty iterator on an empty
\* tree; every other method panics on it.
TreeRef(v, t, m, i) ==
  /\ trees[t].st = "live"
  /\ views[v].st = "none"
  /\ CanUse(views, t, TreeSigs[m].recv)
  /\ m \in ChildMethods \/ i = 0
  /\ IF IsEmpty(trees[t]) /\ m \notin {"Tree::iter", "Tree::iter_mut"}
     THEN /\ last' = [Panicked(m, t) EXCEPT !.i = i]
          /\ UNCHANGED views
     ELSE IF m \in ChildMethods /\ i >= ChildsLen(heap, trees[t])
     THEN /\ last' = [Panicked(m, t) EXCEPT
                        !.i = i, !.msg = OutOfRangeMsg(i, ChildsLen(heap, trees[t]))]
          /\ UNCHANGED views
     ELSE LET n == IF m \in ChildMethods THEN NavTarget(heap, trees[t].current, i)
                   ELSE trees[t].current
          IN  /\ views' = [views EXCEPT ![v] =
                             NewView(heap, TreeSigs[m].res, t, n, t, TreeSigs[m].recv,
                                     m, "-")]
              /\ last' = [Did(m, t) EXCEPT !.i = i, !.res = v, !.from = n]
  /\ UNCHANGED <<heap, trees>>

\* A method of cursor c that returns a reference or an iterator, the result
\* bound to variable v.  held says whether the result holds the borrow of the
\* cursor that the receiver took: it does for lifetime "self", it does not for
\* 'a, and either may be the case for "impl".
CursorRef(v, c, m, i, held) ==
  /\ IsCursor(views[c])
  /\ views[v].st = "none"
  /\ CursorSigs[m].on = views[c].kind
  /\ CanUse(views, c, CursorSigs[m].recv)
  /\ CursorSigs[m].life = "self" => held
  /\ CursorSigs[m].life = "a" => ~held
  /\ m \in ChildMethods \/ i = 0
  /\ IF m \in ChildMethods /\ i >= CursorChildsLen(heap, views[c].cur)
     THEN /\ last' = [Panicked(m, views[c].tree) EXCEPT
                        !.v = c, !.i = i,
                        !.msg = OutOfRangeMsg(i, CursorChildsLen(heap, views[c].cur))]
          /\ UNCHANGED views
     ELSE LET n == IF m \in ChildMethods THEN CursorNavTarget(heap, views[c].cur, i)
                   ELSE views[c].cur
          IN  /\ views' = [views EXCEPT ![v] =
                             NewView(heap, CursorSigs[m].res, views[c].tree, n,
                                     IF held THEN c ELSE views[c].src,
                                     IF held THEN CursorSigs[m].recv ELSE views[c].mode,
                                     m, c)]
              /\ last' = [Did(m, views[c].tree) EXCEPT
                            !.v = c, !.i = i, !.res = v, !.from = n]
  /\ UNCHANGED <<heap, trees>>

\* The cursor specification: trees are built and navigated while no view
\* borrows them and read while no view borrows them mutably, and cursors of the
\* three types are made, moved, read and released.
CursorInit ==
  /\ heap = [n \in 1..MaxCursorNodes |-> BlankCell]
  /\ trees = [t \in TreeIds |-> NoTree]
  /\ last = NoOp
  /\ views = NoViews

CursorNext ==
  \/ \E t \in TreeIds : FromElement(t) /\ UNCHANGED views
  \/ \E t \in TreeIds : CanMut(views, t) /\ Push(t) /\ UNCHANGED views
  \/ \E t \in TreeIds : \E i \in Idx(heap, trees[t]) :
       CanMut(views, t) /\ NavigateTo(t, i) /\ UNCHANGED views
  \/ \E t \in TreeIds : CanMut(views, t) /\ Ascend(t) /\ UNCHANGED views
  \/ \E t \in TreeIds : CanShare(views, t) /\ PeekOp(t) /\ UNCHANGED views
  \/ \E t \in TreeIds : \E i \in Idx(heap, trees[t]) :
       CanShare(views, t) /\ PeekChild(t, i) /\ UNCHANGED views
  \/ \E t \in TreeIds : CanShare(views, t) /\ ChildsLenOp(t) /\ UNCHANGED views
  \/ \E t \in TreeIds : CanShare(views, t) /\ HasFatherOp(t) /\ UNCHANGED views
  \/ \E v \in CursorViewIds : \E t \in TreeIds :
       \E method \in CursorKinds \cup CursorRootKinds : MakeCursor(v, t, method)
  \/ \E v \in CursorViewIds : \E i \in 0..MaxCursorNodes : CursorNavigateTo(v, i)
  \/ \E v \in CursorViewIds : CursorAscend(v)
  \/ \E v \in CursorViewIds : CursorPeekOp(v)
  \/ \E v \in CursorViewIds : \E i \in 0..MaxCursorNodes : CursorPeekChildOp(v, i)
  \/ \E v \in CursorViewIds : CursorChildsLenOp(v)
  \/ \E v \in CursorViewIds : CursorHasFatherOp(v)
  \/ \E v \in CursorViewIds : ReleaseView(v)

CursorSpec == CursorInit /\ [][CursorNext]_vars

\* The specification of writes through UnsafeCursors: one tree is built, and
\* UnsafeCursors on it are made, moved, written through and released.
MaxUnsafeNodes == 3

UnsafeInit ==
  /\ heap = [n \in 1..MaxUnsafeNodes |-> BlankCell]
  /\ trees = [t \in TreeIds |-> NoTree]
  /\ last = NoOp
  /\ views = NoViews

UnsafeNext ==
  \/ FromElement("a") /\ UNCHANGED views
  \/ CanMut(views, "a") /\ Push("a") /\ UNCHANGED views
  \/ \E i \in Idx(heap, trees["a"]) :
       CanMut(views, "a") /\ NavigateTo("a", i) /\ UNCHANGED views
  \/ \E v \in CursorViewIds : \E method \in {"unsafe_cursor", "unsafe_cursor_root"} :
       MakeCursor(v, "a", method)
  \/ \E v \in CursorViewIds : \E i \in 0..MaxUnsafeNodes : CursorNavigateTo(v, i)
  \/ \E v \in CursorViewIds : CursorAscend(v)
  \/ \E v \in CursorViewIds : \E x \in WriteVals : UnsafePeekMutWrite(v, x)
  \/ \E v \in CursorViewIds : ReleaseView(v)

UnsafeSpec == UnsafeInit /\ [][UnsafeNext]_vars

\* The specification of borrows: one tree of a root and a child is built, and
\* every cursor, reference and iterator that the methods not marked unsafe
\* return is made, held in one of three variables and released, as the
\* receivers' borrows admit; cursors navigate.
MaxBorrowNodes == 2

BorrowInit ==
  /\ heap = [n \in 1..MaxBorrowNodes |-> BlankCell]
  /\ trees = [t \in TreeIds |-> NoTree]
  /\ last = NoOp
  /\ views = NoViews

BorrowNext ==
  \/ FromElement("a") /\ UNCHANGED views
  \/ CanMut(views, "a") /\ Push("a") /\ UNCHANGED views
  \/ \E v \in ViewIds : \E method \in CursorKinds \cup CursorRootKinds :
       MakeCursor(v, "a", method)
  \/ \E v \in ViewIds : \E m \in DOMAIN TreeSigs : \E i \in 0..1 : TreeRef(v, "a", m, i)
  \/ \E v, c \in ViewIds : \E m \in DOMAIN CursorSigs : \E i \in 0..1 : \E held \in BOOLEAN :
       CursorRef(v, c, m, i, held)
  \/ \E v \in ViewIds : \E i \in 0..MaxBorrowNodes : CursorNavigateTo(v, i)
  \/ \E v \in ViewIds : CursorAscend(v)
  \/ \E v \in ViewIds : ReleaseView(v)

BorrowSpec == BorrowInit /\ [][BorrowNext]_vars

----------------------------------------------------------------------------
\* Properties of cursors.

\* The nodes that have n in their child list.
Parents(h, n) == {p \in Live(h) : n \in Range(h[p].childs)}
CursorNavOps == {"cursor.navigate_to", "cursor.ascend"}

\* C23: ascend() moves the position to its parent when it has one, and is a
\* fatal error that leaves the position unchanged when it stands on the root.
\* This holds for Tree::ascend and for the ascend of Cursor, CursorMut and
\* UnsafeCursor.  The parent is read off the child lists, not off the father
\* link that the code follows.
C23_Ascend ==
  [][/\ last'.op = "ascend" =>
          LET t == last'.t
              c == trees[t].current
          IN  IF Parents(heap, c) # {}
              THEN /\ last'.ok
                   /\ trees'[t].current \in Parents(heap, c)
                   /\ trees'[t].root = trees[t].root
              ELSE /\ ~last'.ok
                   /\ c = trees[t].root
                   /\ trees' = trees
     /\ last'.op = "cursor.ascend" =>
          LET v == last'.v
              c == views[v].cur
          IN  IF Parents(heap, c) # {}
              THEN /\ last'.ok
                   /\ views'[v].cur \in Parents(heap, c)
              ELSE /\ ~last'.ok
                   /\ c = trees[views[v].tree].root
                   /\ views' = views]_vars

\* C23 witness: a CursorMut that stood below the root has ascended to the
\* parent, which is not where the tree's current is.
C23_Witness ==
  /\ last.op = "cursor.ascend"
  /\ last.ok
  /\ views[last.v].kind = "CursorMut"
  /\ last.from \in Range(heap[views[last.v].cur].childs)
  /\ trees[last.t].current # views[last.v].cur

\* An UnsafeCursor on the root has failed to ascend and is still on the root.
UnsafeCursorAscendAtRoot ==
  /\ last.op = "cursor.ascend"
  /\ ~last.ok
  /\ views[last.v].kind = "UnsafeCursor"
  /\ views[last.v].cur = trees[last.t].root

\* A Cursor has ascended, and the tree's ascend has failed on the root.
CursorAscended ==
  /\ last.op = "cursor.ascend"
  /\ last.ok
  /\ views[last.v].kind = "Cursor"
TreeAscendAtRoot ==
  /\ last.op = "ascend"
  /\ ~last.ok
  /\ trees[last.t].current = trees[last.t].root

\* C28: several Cursors on the same tree are independent.  A navigate_to or an
\* ascend on one Cursor changes nothing but that cursor's position, which
\* becomes the child or the father of the node it stood on (or stays, when the
\* step is fatal): the heap (shape and elements), every tree's markers and
\* every other view are as before, whatever steps the other cursors took in
\* between.
C28_CursorsIndependent ==
  [][(last'.op \in CursorNavOps /\ views[last'.v].kind = "Cursor") =>
       LET v == last'.v
           c == views[v].cur
       IN  /\ heap' = heap
           /\ trees' = trees
           /\ \A w \in ViewIds \ {v} : views'[w] = views[w]
           /\ views'[v] = [views[v] EXCEPT !.cur = views'[v].cur]
           /\ views'[v].cur =
                IF ~last'.ok THEN c
                ELSE IF last'.op = "cursor.navigate_to" THEN heap[c].childs[last'.i + 1]
                ELSE heap[c].father]_vars

\* C28 witness: one Cursor has just moved to a child while another Cursor on
\* the same tree stands on a different node that is not the tree's current.
C28_Witness ==
  /\ last.op = "cursor.navigate_to"
  /\ last.ok
  /\ views[last.v].kind = "Cursor"
  /\ \E w \in ViewIds \ {last.v} :
       /\ IsCursor(views[w])
       /\ views[w].kind = "Cursor"
       /\ views[w].tree = views[last.v].tree
       /\ views[w].cur # views[last.v].cur
       /\ views[w].cur # trees[last.t].current
       /\ views[w].cur # last.from

\* The operations of the navigation state machine, and what one of them does
\* to a tree value tr: whether it returns, the position afterwards and the
\* result.
NavMachineOps == {"navigate_to", "ascend", "peek", "peek_child", "childs_len", "has_father"}
Stays(tr, b, res) == [ok |-> b, pos |-> tr.current, out |-> res]
TreeStep(h, tr, op, i) ==
  CASE op = "navigate_to" ->
         IF IsEmpty(tr) \/ i >= ChildsLen(h, tr) THEN Stays(tr, FALSE, <<>>)
         ELSE [ok |-> TRUE, pos |-> NavTarget(h, tr.current, i), out |-> <<>>]
    [] op = "ascend" ->
         IF IsEmpty(tr) \/ h[tr.current].father = 0 THEN Stays(tr, FALSE, <<>>)
         ELSE [ok |-> TRUE, pos |-> AscendTarget(h, tr), out |-> <<>>]
    [] op = "peek" ->
         IF Peek(h, tr).ok THEN Stays(tr, TRUE, <<Peek(h, tr).val>>)
         ELSE Stays(tr, FALSE, <<>>)
    [] op = "peek_child" ->
         IF IsEmpty(tr) \/ i >= ChildsLen(h, tr) THEN Stays(tr, FALSE, <<>>)
         ELSE Stays(tr, TRUE, <<h[NavTarget(h, tr.current, i)].elem>>)
    [] op = "childs_len" ->
         IF IsEmpty(tr) THEN Stays(tr, FALSE, <<>>)
         ELSE Stays(tr, TRUE, <<ChildsLen(h, tr)>>)
    [] op = "has_father" -> Stays(tr, TRUE, <<Flag(HasFather(h, tr))>>)

\* The operation of Tree that an operation of a cursor is compared with.
TreeOpOf ==
  [o \in {"cursor.navigate_to", "cursor.ascend", "cursor.peek", "cursor.peek_child",
          "cursor.childs_len", "cursor.has_father"} |->
     CASE o = "cursor.navigate_to" -> "navigate_to"
       [] o = "cursor.ascend" -> "ascend"
       [] o = "cursor.peek" -> "peek"
       [] o = "cursor.peek_child" -> "peek_child"
       [] o = "cursor.childs_len" -> "childs_len"
       [] o = "cursor.has_father" -> "has_father"]

\* C29: the cursors follow the navigation state machine of the tree.  A cursor
\* made by cursor(), cursor_mut() or unsafe_cursor() starts on the tree's
\* current and one made by a *_root constructor starts on the root.  Every step
\* of the tree is the step TreeStep describes, and every step of a Cursor,
\* CursorMut or UnsafeCursor standing on node c is the step TreeStep describes
\* for the same tree standing on c: it returns or is fatal alike, reaches the
\* same position and gives the same result.  Equal starts and equal steps thus
\* give equal positions, equal results and a fatal error at the same step.
C29_CursorFollowsTree ==
  [][/\ (last'.op \in CursorKinds /\ last'.ok) =>
          views'[last'.v].cur = trees[last'.t].current
     /\ (last'.op \in CursorRootKinds /\ last'.ok) =>
          views'[last'.v].cur = trees[last'.t].root
     /\ last'.op \in NavMachineOps =>
          LET r == TreeStep(heap, trees[last'.t], last'.op, last'.i)
          IN  /\ last'.ok = r.ok
              /\ trees'[last'.t].current = r.pos
              /\ last'.out = r.out
     /\ last'.op \in DOMAIN TreeOpOf =>
          LET v == last'.v
              tr == [trees[views[v].tree] EXCEPT !.current = views[v].cur]
              r == TreeStep(heap, tr, TreeOpOf[last'.op], last'.i)
          IN  /\ last'.ok = r.ok
              /\ views'[v].cur = r.pos
              /\ last'.out = r.out]_vars

\* C29 witness: the tree stands on a node below the root, a cursor made by a
\* *_root constructor has walked away from the root to another node, and it has
\* just read the element of a child there.
C29_Witness ==
  /\ last.op = "cursor.peek_child"
  /\ last.ok
  /\ views[last.v].kind = "UnsafeCursor"
  /\ trees[last.t].current # trees[last.t].root
  /\ views[last.v].cur # trees[last.t].root
  /\ views[last.v].cur # trees[last.t].current

\* A cursor made on current while current is not the root.
CursorMadeBelowRoot ==
  /\ last.op \in CursorKinds
  /\ last.ok
  /\ views[last.v].cur = trees[last.t].current
  /\ trees[last.t].current # trees[last.t].root

\* A CursorMut has failed to navigate to a child that does not exist.
CursorMutNavigateOutOfRange ==
  /\ last.op = "cursor.navigate_to"
  /\ ~last.ok
  /\ views[last.v].kind = "CursorMut"
  /\ last.i >= Len(heap[views[last.v].cur].childs)

\* The live UnsafeCursors on tree t, and whether they stand on pairwise
\* different nodes.
UnsafeCursorsOn(vs, t) ==
  {w \in ViewIds : IsCursor(vs[w]) /\ vs[w].kind = "UnsafeCursor" /\ vs[w].tree = t}
PairwiseApart(vs, S) == \A v, w \in S : v # w => vs[v].cur # vs[w].cur

\* C30: with several UnsafeCursors on pairwise different nodes, a write through
\* one cursor's peek_mut changes only the element of the node that cursor is
\* on: every other cell of the heap, the child list and the father link of the
\* written node, the tree's markers and the cursors are unchanged.  Writes
\* through two such cursors commute: either order gives the same heap.
C30_UnsafeWritesDisjoint ==
  [][/\ \A v, w \in UnsafeCursorsOn(views, "a") :
          views[v].cur # views[w].cur =>
            \A x, y \in WriteVals :
              UnsafeWrite(UnsafeWrite(heap, views[v].cur, x), views[w].cur, y)
                = UnsafeWrite(UnsafeWrite(heap, views[w].cur, y), views[v].cur, x)
     /\ (/\ last'.op = "unsafe.peek_mut"
         /\ PairwiseApart(views, UnsafeCursorsOn(views, last'.t))) =>
          LET n == views[last'.v].cur
          IN  /\ heap'[n] = [heap[n] EXCEPT !.elem = last'.x]
              /\ \A m \in DOMAIN heap \ {n} : heap'[m] = heap[m]
              /\ trees' = trees
              /\ views' = views]_vars

\* C30 witness: two UnsafeCursors stand on different nodes, one of them the
\* father of the other, both nodes have been written through their cursors, and
\* they hold different values.
C30_Witness ==
  /\ last.op = "unsafe.peek_mut"
  /\ \E w \in UnsafeCursorsOn(views, last.t) \ {last.v} :
       /\ views[w].cur = heap[views[last.v].cur].father
       /\ heap[views[w].cur].elem \in WriteVals
       /\ heap[views[last.v].cur].elem = last.x
       /\ heap[views[w].cur].elem # last.x

\* The live views, and whether view w can be used: no live view holds a
\* mutable borrow of it.
LiveViews(vs) == {v \in ViewIds : vs[v].st = "live"}
Usable(vs, w) == CanShare(vs, w)

\* C26: through the methods not marked unsafe, a view that gives mutable access
\* to elements (a reference from peek_mut or peek_child_mut, an iterator from
\* iter_mut, iter_childs_mut or lazyiter_mut, whether of Tree or of a
\* CursorMut) is never live together with another view of the same tree that
\* can be used: every other live cursor, iterator or reference of that tree is
\* one it holds a mutable borrow of.
C26_MutableViewExclusive ==
  \A m \in LiveViews(views) :
    views[m].mut =>
      \A w \in LiveViews(views) \ {m} :
        views[w].tree = views[m].tree => ~Usable(views, w)

\* What holds of it: a reference from Tree::peek_mut or Tree::peek_child_mut
\* and an iterator from Tree::lazyiter_mut, which take &mut self, is the only
\* live view of its tree.
TreeMutBorrowAlone ==
  \A m \in LiveViews(views) :
    views[m].by \in {"Tree::peek_mut", "Tree::peek_child_mut", "Tree::lazyiter_mut"} =>
      \A w \in LiveViews(views) \ {m} : views[w].tree # views[m].tree

\* Two iterators over mutable references to the same elements are live, both
\* returned by Tree::iter_mut.
TwoIterMutLive ==
  \E m, w \in LiveViews(views) :
    /\ m # w
    /\ views[m].by = "Tree::iter_mut"
    /\ views[w].by = "Tree::iter_mut"
    /\ views[m].cur = views[w].cur

\* A shared reference from CursorMut::peek and a mutable reference from
\* CursorMut::peek_mut of the same cursor refer to the same node and are live.
PeekAndPeekMutLive ==
  \E m, w \in LiveViews(views) :
    /\ views[m].by = "CursorMut::peek_mut"
    /\ views[w].by = "CursorMut::peek"
    /\ views[m].of = views[w].of
    /\ views[m].cur = views[w].cur

\* The live views obtained from CursorMut c by a method that returns mutable
\* access to elements.
MutRefMethods ==
  {"CursorMut::peek_mut", "CursorMut::peek_child_mut", "CursorMut::iter_childs_mut",
   "CursorMut::iter_mut", "CursorMut::lazyiter_mut"}
Outstanding(vs, c, methods) ==
  {r \in LiveViews(vs) : vs[r].of = c /\ vs[r].by \in methods}

\* The nodes whose elements a view refers to: the node of a reference, the
\* childs of the node a child iterator was made on, the subtree of the node any
\* other iterator was made on.
Covers(h, vw) ==
  IF vw.kind \in {"&T", "&mut T"} THEN {vw.cur}
  ELSE IF vw.kind \in {"ChildIterator", "ChildIteratorMut"} THEN Range(h[vw.cur].childs)
  ELSE Reach(h, vw.cur)

\* While a view that 'methods' returned is outstanding on a CursorMut, no step
\* is a navigate_to or an ascend of that cursor, returning or fatal, and no
\* step makes that cursor return a reference or an iterator to a node that the
\* outstanding view refers to.
Blocks(methods) ==
  \A c \in ViewIds :
    (views[c].kind = "CursorMut" /\ Outstanding(views, c, methods) # {}) =>
      /\ ~(last'.op \in CursorNavOps /\ last'.v = c)
      /\ ~(/\ last'.op \in DOMAIN CursorSigs
           /\ last'.v = c
           /\ last'.ok
           /\ \E r \in Outstanding(views, c, methods) :
                Covers(heap, views'[last'.res]) \cap Covers(heap, views[r]) # {})

\* C27: while a mutable element or child reference obtained from a CursorMut
\* by peek_mut, peek_child_mut, iter_childs_mut, iter_mut or lazyiter_mut is
\* outstanding, that CursorMut does not navigate (navigate_to, ascend) and
\* hands out no second reference to a node the outstanding one refers to; it
\* does so again only after the reference is released.
C27_OutstandingBlocksCursor == [][Blocks(MutRefMethods)]_vars

\* What holds of it: a reference from CursorMut::peek_mut or peek_child_mut,
\* whose lifetime is the borrow of the cursor, blocks the cursor.
PeekMutBlocksCursor ==
  [][Blocks({"CursorMut::peek_mut", "CursorMut::peek_child_mut"})]_vars

\* A CursorMut has navigated to a child while the iterator its iter_childs_mut
\* returned is live.
NavigatedUnderChildIteratorMut ==
  /\ last.op = "cursor.navigate_to"
  /\ last.ok
  /\ \E r \in LiveViews(views) :
       views[r].of = last.v /\ views[r].by = "CursorMut::iter_childs_mut"

\* A CursorMut has returned a mutable reference to a node while the iterator
\* its lazyiter_mut returned, which yields a mutable reference to that node, is
\* live.
PeekMutUnderLazyIterMut ==
  /\ last.op = "CursorMut::peek_mut"
  /\ last.ok
  /\ \E r \in LiveViews(views) :
       /\ views[r].of = last.v
       /\ views[r].by = "CursorMut::lazyiter_mut"
       /\ views[r].cur = views[last.res].cur

\* A CursorMut has navigated after the reference its peek_mut returned was
\* released.
NavigatedAfterRelease ==
  /\ last.op = "cursor.navigate_to"
  /\ last.ok
  /\ views[last.v].kind = "CursorMut"
  /\ LiveViews(views) = {last.v}

----------------------------------------------------------------------------
\* Properties of drop, go_to_root and of operations that end in a fatal error.

Max(S) == CHOOSE x \in S : \A y \in S : y <= x

\* The number of nodes on the longest path from n down to a leaf.
RECURSIVE Height(_, _)
Height(h, n) ==
  1 + (IF h[n].childs = <<>> THEN 0 ELSE Max({Height(h, c) : c \in Range(h[n].childs)}))

\* The largest number of activations of Drop::drop that are active at the same
\* time while the tree rooted at r is dropped: drop calls split(0) once per
\* child and the Tree that split returns is a temporary, dropped before the
\* loop goes on, inside the activation that called split.
RECURSIVE DropNesting(_, _)
DropNesting(h, r) ==
  1 + (IF h[r].childs = <<>> THEN 0
       ELSE Max({DropNesting(h, c) : c \in Range(h[r].childs)}))

\* The nesting that dropping a root with one childless child takes: the least
\* bound that holds of the trees of height two.
FlatHeap ==
  <<[st |-> "live", father |-> 0, childs |-> <<2>>, elem |-> 0, rel |-> 0],
    [st |-> "live", father |-> 1, childs |-> <<>>, elem |-> 1, rel |-> 0]>>
FlatDropNesting == DropNesting(FlatHeap, 1)

\* C33: dropping a tree is iterative: the number of activations of the
\* destructor that are active at the same time while a tree is dropped does not
\* grow with the height of the tree; it is what a tree of height two takes.
C33_DropNestingBounded ==
  [][(last'.op = "drop" /\ trees[last'.t].root # 0) =>
       DropNesting(heap, trees[last'.t].root) <= FlatDropNesting]_vars

\* What the code does: the nesting is the height of the tree that is dropped.
DropNestingIsHeight ==
  [][(last'.op = "drop" /\ trees[last'.t].root # 0) =>
       DropNesting(heap, trees[last'.t].root) = Height(heap, trees[last'.t].root)]_vars

\* A chain of three nodes has been dropped, every node released once.
DroppedChainOfThree ==
  /\ last.op = "drop"
  /\ last.donor.root # 0
  /\ \A n \in DOMAIN heap : heap[n].st = "released" /\ heap[n].rel = 1
  /\ Cardinality(DOMAIN heap) >= 3

\* C35: on a non-empty tree go_to_root() sets current to the root, from any
\* position that navigation and mutation steps have reached; has_father() is
\* false afterwards; the root marker, the heap and every other tree are
\* unchanged.
C35_GoToRoot ==
  [][(last'.op = "go_to_root" /\ ~IsEmpty(trees[last'.t])) =>
       LET t == last'.t
       IN  /\ last'.ok
           /\ trees'[t].current = trees[t].root
           /\ trees'[t].root = trees[t].root
           /\ trees'[t].st = trees[t].st
           /\ ~HasFather(heap', trees'[t])
           /\ heap' = heap
           /\ \A u \in Others(t) : trees'[u] = trees[u]]_vars

\* C35 witness: go_to_root has moved current from a node below the root, which
\* has a father, to the root.
C35_Witness ==
  /\ last.op = "go_to_root"
  /\ last.ok
  /\ trees[last.t].current = trees[last.t].root
  /\ heap[trees[last.t].root].childs # <<>>
  /\ \E t \in LiveTrees : t # last.t

\* The operations whose fatal error follows a write.
WritesBeforeFatal == {"insert", "join"}

\* C37: every tree operation that ends in a fatal error leaves the observable
\* state as it was before the call: the heap (shape, elements, father links)
\* and the markers of every tree but a donor are unchanged.  A join consumes
\* its donor, so the donor's variable is gone after the call; its nodes are
\* unchanged, or released by the drop of the unchanged donor.
C37_FatalLeavesStateUnchanged ==
  [][~last'.ok =>
       /\ \A t \in TreeIds \ {last'.u} : trees'[t] = trees[t]
       /\ \/ heap' = heap
          \/ last'.op = "join" /\ heap' = DropValue(heap, trees[last'.u])]_vars

\* What holds of it: a fatal error of any operation but insert and join leaves
\* the heap and every tree unchanged.
FatalLeavesStateUnlessWritten ==
  [][(~last'.ok /\ last'.op \notin WritesBeforeFatal) =>
       (heap' = heap /\ trees' = trees)]_vars

\* A join with an index beyond the receiver's child count has failed: the
\* receiver's child list is as before, the donor's root has the receiver's
\* current as father and no tree owns it.
JoinFailedAfterWrite ==
  /\ last.op = "join"
  /\ ~last.ok
  /\ last.from # 0
  /\ heap[last.from].st = "live"
  /\ heap[last.from].father = trees[last.t].current
  /\ last.from \notin Range(heap[trees[last.t].current].childs)
  /\ last.from \notin Owned

----------------------------------------------------------------------------
\* Into<Vec<T>> for Tree.

\* A conversion that does not go to the root first.
IntoResult_FromCurrent(h, tr) ==
  IF ~HasFather(h, tr) THEN IntoVecAtRoot(h, tr) ELSE IntoVecBelowRoot(h, tr)

\* self.go_to_root(); self.into_vec() on a non-empty tree value.
IntoResult(h, tr) ==
  LET atroot == [tr EXCEPT !.current = GoToRootTarget(tr)]
  IN  IF ~HasFather(h, atroot) THEN IntoVecAtRoot(h, atroot)
      ELSE IntoVecBelowRoot(h, atroot)

\* let v: Vec<T> = tree.into(): the tree is consumed; go_to_root panics on an
\* empty tree; what is left of the tree value is dropped when into returns or
\* unwinds.
Into(t) ==
  /\ trees[t].st = "live"
  /\ trees' = [trees EXCEPT ![t] = NoTree]
  /\ IF IsEmpty(trees[t])
     THEN /\ heap' = DropValue(heap, trees[t])
          /\ last' = Panicked("into", t)
     ELSE LET r == IntoResult(heap, trees[t])
          IN  /\ heap' = DropValue(r.h, r.tr)
              /\ last' = [Did("into", t) EXCEPT
                            !.out = r.out, !.from = trees[t].current,
                            !.donor = [root |-> trees[t].root, current |-> trees[t].current]]

\* The specification of conversions: trees are built and navigated, and
\* flattened by into_vec or consumed by into.
MaxIntoNodes == 4

IntoInit ==
  /\ heap = [n \in 1..MaxIntoNodes |-> BlankCell]
  /\ trees = [t \in TreeIds |-> NoTree]
  /\ last = NoOp
  /\ views = NoViews

IntoNext ==
  \/ \E t \in TreeIds : FromElement(t) /\ UNCHANGED views
  \/ \E t \in TreeIds : Default(t) /\ UNCHANGED views
  \/ \E t \in TreeIds : Push(t) /\ UNCHANGED views
  \/ \E t \in TreeIds : \E i \in Idx(heap, trees[t]) : NavigateTo(t, i) /\ UNCHANGED views
  \/ \E t \in TreeIds : Ascend(t) /\ UNCHANGED views
  \/ \E t \in TreeIds : IntoVec(t) /\ UNCHANGED views
  \/ \E t \in TreeIds : Into(t) /\ UNCHANGED views

IntoSpec == IntoInit /\ [][IntoNext]_vars

\* C36: converting a non-empty tree with Into<Vec<T>> returns the elements of
\* the whole tree in pre-order from the root, wherever current is, whereas
\* into_vec() returns those of the subtree at current; every node of the tree
\* is released exactly once, the drop of the consumed tree included, and no
\* other node changes.
C36_IntoFlattensWholeTree ==
  [][/\ (last'.op = "into" /\ ~IsEmpty(trees[last'.t])) =>
          LET r == trees[last'.t].root
          IN  /\ last'.ok
              /\ last'.out = ElemsOf(heap, IterRec(heap, r))
              /\ \A n \in Reach(heap, r) :
                   heap'[n].st = "released" /\ heap'[n].rel = heap[n].rel + 1
              /\ \A n \in DOMAIN heap \ Reach(heap, r) : heap'[n] = heap[n]
              /\ trees'[last'.t] = NoTree
     /\ (last'.op = "into_vec" /\ last'.ok) =>
          last'.out = ElemsOf(heap, IterRec(heap, trees[last'.t].current))]_vars

\* C36 witness: a tree whose current was below the root, on a node with a
\* sibling, has been converted: the result is longer than what into_vec would
\* have returned and every cell of the tree is released once.
C36_Witness ==
  /\ last.op = "into"
  /\ last.ok
  /\ last.from # last.donor.root
  /\ Len(last.out) >= 3
  /\ heap[last.donor.root].st = "released"
  /\ heap[last.donor.root].rel = 1
  /\ heap[last.from].rel = 1

----------------------------------------------------------------------------
\* Iterators, one call of next() at a time.

LazyKinds == {"LazyTreeIterator", "LazyTreeIteratorMut"}
ChildIterKinds == {"ChildIterator", "ChildIteratorMut"}

\* A child iterator that yields the first child over and over.
ChildItem_First(h, c, i) == h[c].childs[1]

\* The node whose element ChildIterator::next yields at index i.
ChildItem(h, c, i) == h[c].childs[i + 1]

\* ChildIterator::next and ChildIteratorMut::next: the element of child i and
\* i += 1 while i < len, None after that.
ChildNext(v) ==
  /\ views[v].st = "live"
  /\ views[v].kind \in ChildIterKinds
  /\ CanMut(views, v)
  /\ IF views[v].i < views[v].len
     THEN LET n == ChildItem(heap, views[v].cur, views[v].i)
          IN  /\ views' = [views EXCEPT ![v].i = @ + 1, ![v].seen = Append(@, n)]
              /\ last' = [Did("child.next", views[v].tree) EXCEPT
                            !.v = v, !.i = views[v].i, !.out = <<heap[n].elem>>]
     ELSE /\ last' = [Did("child.next", views[v].tree) EXCEPT !.v = v, !.i = views[v].i]
          /\ UNCHANGED views
  /\ UNCHANGED <<heap, trees>>

\* LazyTreeIterator::next and LazyTreeIteratorMut::next (the same body, over a
\* Cursor and over an UnsafeCursor).  A panic of the cursor's ascend comes
\* before any write to the iterator.
LazyNextStep(v) ==
  /\ views[v].st = "live"
  /\ views[v].kind \in LazyKinds
  /\ CanMut(views, v)
  /\ LET r == LazyNext(heap, [cur |-> views[v].cur, idx |-> views[v].idx])
     IN  IF r.panic
         THEN /\ last' = [Panicked("lazy.next", views[v].tree) EXCEPT
                            !.v = v, !.from = views[v].cur]
              /\ UNCHANGED views
         ELSE /\ views' = [views EXCEPT
                             ![v].cur = r.it.cur, ![v].idx = r.it.idx,
                             ![v].seen = IF r.res = 0 THEN @ ELSE Append(@, r.res)]
              /\ last' = [Did("lazy.next", views[v].tree) EXCEPT
                            !.v = v, !.from = views[v].cur,
                            !.out = IF r.res = 0 THEN <<>> ELSE <<heap[r.res].elem>>]
  /\ UNCHANGED <<heap, trees>>

\* The specification of iterators: one tree is built and navigated, cursors
\* are made on it and moved, child iterators and lazy iterators are made from
\* the tree and from the cursors, and advanced one next() at a time.
MaxIterNodes == 4
IterTreeMethods ==
  {"Tree::iter_childs", "Tree::iter_childs_mut", "Tree::lazyiter", "Tree::lazyiter_mut"}
IterCursorMethods ==
  {"Cursor::iter_childs", "Cursor::lazyiter", "CursorMut::lazyiter_mut"}

IterInit ==
  /\ heap = [n \in 1..MaxIterNodes |-> BlankCell]
  /\ trees = [t \in TreeIds |-> NoTree]
  /\ last = NoOp
  /\ views = NoViews

IterNext ==
  \/ FromElement("a") /\ UNCHANGED views
  \/ CanMut(views, "a") /\ Push("a") /\ UNCHANGED views
  \/ \E i \in Idx(heap, trees["a"]) :
       CanMut(views, "a") /\ NavigateTo("a", i) /\ UNCHANGED views
  \/ CanMut(views, "a") /\ Ascend("a") /\ UNCHANGED views
  \/ \E v \in CursorViewIds : \E method \in {"cursor", "cursor_mut"} :
       MakeCursor(v, "a", method)
  \/ \E v \in CursorViewIds : \E i \in 0..MaxIterNodes : CursorNavigateTo(v, i)
  \/ \E v \in CursorViewIds : \E m \in IterTreeMethods : TreeRef(v, "a", m, 0)
  \/ \E v, c \in CursorViewIds : \E m \in IterCursorMethods : CursorRef(v, c, m, 0, FALSE)
  \/ \E v \in CursorViewIds : ChildNext(v)
  \/ \E v \in CursorViewIds : LazyNextStep(v)
  \/ \E v \in CursorViewIds : ReleaseView(v)

IterSpec == IterInit /\ [][IterNext]_vars

----------------------------------------------------------------------------
\* Properties of iterators.

IsPrefix(a, b) == Len(a) <= Len(b) /\ a = SubSeq(b, 1, Len(a))
LiveOfKind(vs, kinds) == {v \in ViewIds : vs[v].st = "live" /\ vs[v].kind \in kinds}
\* A node without childs and without father: the root of a one-node tree.
Lone(h, n) == h[n].childs = <<>> /\ h[n].father = 0

\* The nodes a LazyTreeIteratorMut has yielded are, in order, the first nodes
\* of the pre-order of the subtree it was made on: none twice, none outside.
LazyMutYieldsPreOrderPrefix(h, vs) ==
  \A v \in LiveOfKind(vs, {"LazyTreeIteratorMut"}) :
    IsPrefix(vs[v].seen, IterRec(h, vs[v].start))

\* C31: lazyiter_mut() of Tree and of CursorMut hands out a mutable reference
\* to each node of the subtree rooted at its start position exactly once, in
\* pre-order, and to no node outside it: what it has yielded is a prefix of the
\* pre-order of that subtree, every call returns, and when the iterator is
\* exhausted it has yielded the whole pre-order.
C31_LazyIterMutEachNodeOnce ==
  [][/\ LazyMutYieldsPreOrderPrefix(heap', views')
     /\ \A v \in LiveOfKind(views', {"LazyTreeIteratorMut"}) :
          views'[v].idx = <<>> => views'[v].seen = IterRec(heap', views'[v].start)
     /\ (last'.op = "lazy.next" /\ views[last'.v].kind = "LazyTreeIteratorMut") =>
          last'.ok]_vars

\* What holds of it: no node is yielded twice or from outside the subtree, and
\* an iterator made on a node that has a child or a father yields the whole
\* pre-order without a fatal error.
LazyIterMutUnlessLoneRoot ==
  [][/\ LazyMutYieldsPreOrderPrefix(heap', views')
     /\ \A v \in LiveOfKind(views', {"LazyTreeIteratorMut"}) :
          views'[v].idx = <<>> => views'[v].seen = IterRec(heap', views'[v].start)
     /\ (last'.op = "lazy.next" /\ views[last'.v].kind = "LazyTreeIteratorMut") =>
          (last'.ok <=> ~Lone(heap, views[last'.v].start))]_vars

\* An iterator that CursorMut::lazyiter_mut returned on a node below the root
\* is exhausted and has yielded a subtree of at least two nodes.
CursorMutLazyIterMutExhausted ==
  \E v \in LiveOfKind(views, {"LazyTreeIteratorMut"}) :
    /\ views[v].by = "CursorMut::lazyiter_mut"
    /\ views[v].idx = <<>>
    /\ Len(views[v].seen) >= 2
    /\ heap[views[v].start].father # 0

\* The first next() of a lazyiter_mut() on a tree of one node has panicked.
LazyIterMutOnLoneRoot ==
  /\ last.op = "lazy.next"
  /\ ~last.ok
  /\ views[last.v].kind = "LazyTreeIteratorMut"
  /\ views[last.v].seen = <<>>
  /\ Lone(heap, views[last.v].start)

\* What a call of next() on a lazy iterator over a subtree of n nodes does,
\* under the condition 'returns' on whether it returns at all: it has yielded
\* at most n nodes, it answers None only after n nodes, and once the index
\* stack is empty it answers None and the iterator is as before.
LazyNextIsFinite(returns) ==
  last'.op = "lazy.next" =>
    LET v == last'.v
        n == Len(IterRec(heap, views[v].start))
    IN  /\ last'.ok <=> returns
        /\ Len(views'[v].seen) <= n
        /\ (last'.ok /\ last'.out = <<>>) =>
             (Len(views'[v].seen) = n /\ views'[v].idx = <<>>)
        /\ (last'.ok /\ last'.out # <<>>) => Len(views'[v].seen) = Len(views[v].seen) + 1
        /\ views[v].idx = <<>> => (last'.ok /\ last'.out = <<>> /\ views' = views)

\* C32: a lazy iterator is finite and not restartable: over a subtree of n
\* nodes every call of next() returns, exactly n calls return an element, and
\* every call after the first None returns None and leaves the iterator's
\* cursor where it is.
C32_LazyIterFinite == [][LazyNextIsFinite(TRUE)]_vars

\* What holds of it: all of the above but for the fatal error of the first call
\* on a tree of one node.
LazyIterFiniteUnlessLoneRoot ==
  [][LazyNextIsFinite(~Lone(heap, views[last'.v].start))]_vars

\* An exhausted LazyTreeIterator over three nodes or more has answered None a
\* second time.
LazyIterNoneAgain ==
  /\ last.op = "lazy.next"
  /\ last.ok
  /\ last.out = <<>>
  /\ views[last.v].kind = "LazyTreeIterator"
  /\ Len(views[last.v].seen) >= 3
  /\ last.from = views[last.v].cur

\* C34: iter_childs() yields the elements of the direct children of current
\* only, in child-index order, exactly childs_len() of them and none for a
\* childless node, never a grandchild; each call makes an iterator that starts
\* from child 0, whatever another iterator has yielded.
C34_IterChilds ==
  [][/\ \A v \in LiveOfKind(views', {"ChildIterator"}) :
          LET w == views'[v]
          IN  /\ w.len = Len(heap'[w.start].childs)
              /\ w.i <= w.len
              /\ w.seen = SubSeq(heap'[w.start].childs, 1, w.i)
     /\ last'.op = "Tree::iter_childs" =>
          /\ last'.ok
          /\ views'[last'.res].start = trees[last'.t].current
          /\ views'[last'.res].i = 0
          /\ views'[last'.res].seen = <<>>
     /\ (last'.op = "child.next" /\ views[last'.v].kind = "ChildIterator") =>
          LET w == views[last'.v]
              kids == heap[w.start].childs
          IN  /\ last'.ok
              /\ IF Len(w.seen) < Len(kids)
                 THEN last'.out = <<heap[kids[Len(w.seen) + 1]].elem>>
                 ELSE last'.out = <<>> /\ views' = views]_vars

\* C34 witness: an iterator of iter_childs() has yielded the second child of a
\* node whose first child has a child of its own, while a second iterator made
\* on the same node has yielded nothing yet.
C34_Witness ==
  /\ last.op = "child.next"
  /\ last.out # <<>>
  /\ views[last.v].by = "Tree::iter_childs"
  /\ views[last.v].i = 2
  /\ heap[heap[views[last.v].start].childs[1]].childs # <<>>
  /\ \E w \in LiveOfKind(views, {"ChildIterator"}) \ {last.v} :
       /\ views[w].start = views[last.v].start
       /\ views[w].i = 0

\* While a lazy iterator is not exhausted its cursor is on a node of the
\* subtree it was made on and its index stack has one entry per level from the
\* start node down to the cursor.
LazyCursorInSubtree(h, w) ==
  w.idx # <<>> =>
    /\ w.cur \in Reach(h, w.start)
    /\ Len(w.idx) = Len(PathTo(h, w.start, w.cur)) + 1

\* C38: while a lazy iterator is not exhausted (its index stack is non-empty)
\* its cursor is on a node of the subtree rooted at the start position and the
\* length of the index stack is the depth of the cursor below the start node
\* plus one; the cursor leaves the subtree, to the father of the start node,
\* only in the call that empties the stack.
C38_LazyCursorInvariant ==
  [][/\ \A v \in LiveOfKind(views', LazyKinds) : LazyCursorInSubtree(heap', views'[v])
     /\ last'.op = "lazy.next" =>
          LET w == views[last'.v]
              w2 == views'[last'.v]
          IN  (w.cur \in Reach(heap, w.start) /\ w2.cur \notin Reach(heap, w.start)) =>
                /\ w.idx # <<>>
                /\ w2.idx = <<>>
                /\ w2.cur = heap[w.start].father]_vars

\* C38 witness: a lazy iterator made on a node below the root has yielded two
\* nodes or more and has emptied its stack, and its cursor is on the start
\* node's father.
C38_Witness ==
  /\ last.op = "lazy.next"
  /\ last.ok
  /\ views[last.v].idx = <<>>
  /\ views[last.v].cur = heap[views[last.v].start].father
  /\ views[last.v].cur # 0
  /\ Len(views[last.v].seen) >= 2

\* A lazy iterator in mid-course: its cursor two levels below the start node,
\* its stack three entries long.
LazyCursorTwoLevelsDown ==
  \E v \in LiveOfKind(views, LazyKinds) :
    /\ Len(views[v].idx) = 3
    /\ Len(PathTo(heap, views[v].start, views[v].cur)) = 2

====
